---- MODULE Spec2Model ----
(***************************************************************************)
(* Automation job engine of SMM-automation: the in-memory job collection   *)
(* (config.background_jobs), the polling scheduler                         *)
(* (bot.process_automation_jobs), the order dispatcher (bot.place_order),   *)
(* the growth calculator (bot.calculate_next_quantity), the lifecycle       *)
(* operations of app.py (pause, resume, stop and their bulk variants) and   *)
(* job creation (app.setup_automation).                                     *)
(*                                                                         *)
(* Conventions.  A Python dict key that is absent or None is NoTime (-1)    *)
(* for a timestamp, None (0) for an identifier and "None" for a name.       *)
(* A timestamp the code keeps as a formatted date string (paused_at,       *)
(* resumed_at, stopped_at, an order's timestamp) is the second it denotes.  *)
(* uuid.uuid4() is a fresh number drawn from uuid_counter.  Every handler   *)
(* that runs inside `with data_lock` is one atomic action; the scheduler,   *)
(* which keeps the lock for a whole pass over the jobs, is a sequence of    *)
(* steps during which no request handler can run.                           *)
(***************************************************************************)
EXTENDS Integers, Sequences, FiniteSets, TLC

VARIABLES
    user_data,        \* config.user_data: user name -> record (orders)
    background_jobs,  \* config.background_jobs: the ordered job list
    bot_statistics,   \* config.bot_statistics: order counters
    data_files,       \* the contents of data/*.json as last written by save_data
    uuid_counter,     \* number of uuid4() values drawn so far
    clock,            \* wall clock, time.time(), in seconds
    pc,               \* scheduler position: "sleep", "snap" or "loop"
    now,              \* the scheduler's time snapshot of the current tick
    idx,              \* position of the scheduler's `for job in background_jobs`
    updated_jobs,     \* the scheduler's local list updated_jobs
    wake_at,          \* end of the scheduler's time.sleep(15)
    response,         \* what the last request handler returned
    req_no,           \* number of requests served
    disk,             \* the files under data/ and data/temp/, one per path
    save_pc,          \* position of a save_data that writes the files step by step
    reg_pc,           \* position of a web handler that writes outside data_lock
    telegram_user_sessions  \* bot.telegram_user_sessions: chat -> /newjob session

vars == << user_data, background_jobs, bot_statistics, data_files, uuid_counter,
           clock, pc, now, idx, updated_jobs, wake_at, response, req_no,
           disk, save_pc, reg_pc, telegram_user_sessions >>

-----------------------------------------------------------------------------
(* Bounds of the model *)

MaxJobs == 2

MaxOrders == 2

MaxRequests == 3

MaxFailedOrders == 7

\* /newjob sessions a run starts.
MaxSessions == 1

\* The number of jobs a run of bulk requests may add up to.
MaxBulkJobs == 20

\* The templates an account holds.
MaxTemplates == 1

(* Program constants *)

ADMIN_USERNAME == "matrix"

MinFrequency == 5

ErrorThreshold == 5

PollInterval == 15

\* validate_job_parameters: frequency >= 5.
MinTelegramFrequency == 5

\* create_jobs_from_telegram: at most ten jobs per session.
MaxTelegramJobs == 10

SecondsPerMinute == 60

\* Stands for the largest timestamp datetime.fromtimestamp accepts (year 9999),
\* scaled down to the integers of the model checker.
MaxTimestamp == 2000000000

NoTime == 0 - 1

None == 0

\* A handler that is not running.
Idle == "idle"

\* save_pc is << phase, k >>: the phase of save_data and the collection it is
\* at; when idle or down, k tells whether the files are those of a save_data
\* that ran to its end (InSync) or not (OutOfSync).
InSync == 1

OutOfSync == 0

Users == {"matrix", "alice", "bob"}

\* The instants at which the model lets something happen.
Times == {0, 15, 300}

LongRunTimes == {0, 300, 600, 900, 1200, 1500, 1800}

\* Consecutive passes of the scheduler, one poll interval apart.
PollTimes == {0, 15, 30, 45, 60, 75}

-----------------------------------------------------------------------------
(* Pure helpers *)

Min2(a, b) == IF a <= b THEN a ELSE b

Max2(a, b) == IF a >= b THEN a ELSE b

\* Python's int(x) of a quotient: truncation towards zero.
Trunc(n, d) == IF n >= 0 THEN n \div d ELSE 0 - ((0 - n) \div d)

\* Every value calculate_next_quantity can return: random.uniform draws a
\* percentage between the two ends of increase_range, the increase is
\* int(current_quantity * percentage / 100).
NextQuantities(current_quantity, increase_range) ==
    LET a == Trunc(current_quantity * increase_range[1], 100)
        b == Trunc(current_quantity * increase_range[2], 100)
    IN  { current_quantity + k : k \in Min2(a, b) .. Max2(a, b) }

\* save_data: every collection is written to its file.
SaveData(ud, stats, jobs) ==
    [ user_data |-> ud, bot_statistics |-> stats, background_jobs |-> jobs ]

\* datetime.fromtimestamp(t) raises for a timestamp beyond the calendar.
FromTimestampRaises(t) == t > MaxTimestamp

Indices(jobs) == 1 .. Len(jobs)

\* Variant of LockFree for handlers that do not wait for the lock.
LockFreeAlways == TRUE

\* The data_lock: held by the scheduler during its pass over the jobs.
LockFree == pc # "loop"


First(S) == CHOOSE i \in S : \A j \in S : i <= j

-----------------------------------------------------------------------------
(* Job records *)

\* The entry of user_data made for a new account: no order, no template.
NewAccount(telegram_id) ==
    [ orders |-> << >>, telegram_id |-> telegram_id, templates |-> << >> ]

\* The job dict built by setup_automation.
NewJob(job_id, user_id, service_id, link, quantity, increase_range, frequency, bulk_group_id, t) ==
    [ job_id         |-> job_id,
      user_id        |-> user_id,
      api_url        |-> "url1",
      api_key        |-> "key1",
      service_id     |-> service_id,
      link           |-> link,
      quantity       |-> quantity,
      increase_range |-> increase_range,
      frequency      |-> frequency,
      next_run       |-> t,
      stopped        |-> FALSE,
      paused         |-> FALSE,
      bulk_group_id  |-> bulk_group_id,
      paused_at      |-> NoTime,
      resumed_at     |-> NoTime,
      stopped_at     |-> NoTime,
      stopped_by     |-> "None",
      stopped_reason |-> "None",
      error_count    |-> 0,
      orders         |-> << >> ]

Response(op, arg, user_id, ok, count) ==
    [ op |-> op, arg |-> arg, user |-> user_id, ok |-> ok, count |-> count ]

JobIds == { background_jobs[i].job_id : i \in Indices(background_jobs) }

\* The job ids a request can carry: those in use, and one that names nothing.
JobIdInputs == JobIds \cup { uuid_counter + 1 }

\* The group ids a request can carry: every group uuid drawn so far, stored
\* in a job or not (the URL always carries a string, never None).
GroupIdInputs == (1 .. uuid_counter) \ JobIds

\* A request comes from a logged-in user: login needs an entry of user_data.
Requesters == DOMAIN user_data

\* The users who create jobs in the model.
JobOwners == { "alice" }

SchedulerVars == << pc, now, idx, updated_jobs, wake_at >>

\* The files as save_data writes them step by step, the web handlers that
\* write outside the lock, and the /newjob sessions of the Telegram chats.
StoreVars == << disk, save_pc >>

WebVars == << reg_pc >>

BuilderVars == << telegram_user_sessions >>

-----------------------------------------------------------------------------
(* Lifecycle operations, app.py *)

\* Variant of OwnJob that lets the admin through, as stop_job_route does.
OwnJobOrAdmin(job, job_id, user_id) ==
    job.job_id = job_id /\ (job.user_id = user_id \/ user_id = ADMIN_USERNAME)

\* pause_job / resume_job: the `if` that selects the job.
OwnJob(job, job_id, user_id) ==
    job.job_id = job_id /\ job.user_id = user_id

\* Variant of Paused that also makes the job due at once.
PausedRescheduling(job, t) ==
    [ job EXCEPT !.paused = TRUE, !.paused_at = t, !.next_run = t ]

\* pause_job: the assignments to the selected job.
Paused(job, t) == [ job EXCEPT !.paused = TRUE, !.paused_at = t ]

\* Variant of Resumed that leaves the schedule of the job alone.
ResumedKeepingNextRun(job, t) ==
    [ job EXCEPT !.paused = FALSE, !.resumed_at = t ]

\* resume_job: the assignments to the selected job.
Resumed(job, t) ==
    [ job EXCEPT !.paused = FALSE, !.resumed_at = t, !.next_run = t ]

\* bot.stop_job: the assignments to the job (stopped_by only when given).
Stopped(job, t, stopped_by) ==
    [ job EXCEPT !.stopped = TRUE, !.stopped_at = t, !.stopped_by = stopped_by ]

\* stop_bulk_jobs: the assignments to a job of the group.
BulkStopped(job, t) == [ job EXCEPT !.stopped = TRUE, !.stopped_at = t ]

\* Variant of StopAuthorized without the admin clause.
StopAuthorizedOwnerOnly(job, job_id, user_id) ==
    job.job_id = job_id /\ job.user_id = user_id

\* stop_job_route: the `if` that selects the job.
StopAuthorized(job, job_id, user_id) ==
    job.job_id = job_id /\ (job.user_id = user_id \/ user_id = ADMIN_USERNAME)

\* Variant of InGroup without the `not job.get('stopped')` test.
InGroupAnyState(job, bulk_group_id, user_id) ==
    /\ job.bulk_group_id = bulk_group_id
    /\ job.user_id = user_id

\* pause_bulk_jobs / resume_bulk_jobs / stop_bulk_jobs: the `if` of the loop.
InGroup(job, bulk_group_id, user_id) ==
    /\ job.bulk_group_id = bulk_group_id
    /\ job.user_id = user_id
    /\ ~job.stopped

PauseJob(job_id, user_id) ==
    LET hits == { i \in Indices(background_jobs) :
                    OwnJob(background_jobs[i], job_id, user_id) }
    IN  /\ LockFree
        /\ req_no < MaxRequests
        /\ req_no' = req_no + 1
        /\ IF hits # {}
           THEN LET i == First(hits)
                    jobs == [ background_jobs EXCEPT
                                ![i] = Paused(background_jobs[i], clock) ]
                IN  /\ background_jobs' = jobs
                    /\ data_files' = SaveData(user_data, bot_statistics, jobs)
                    /\ response' = Response("pause_job", job_id, user_id, TRUE, 0)
           ELSE /\ UNCHANGED << background_jobs, data_files >>
                /\ response' = Response("pause_job", job_id, user_id, FALSE, 0)
        /\ UNCHANGED << user_data, bot_statistics, uuid_counter, clock >>
        /\ UNCHANGED << SchedulerVars, StoreVars, WebVars, BuilderVars >>

ResumeJob(job_id, user_id) ==
    LET hits == { i \in Indices(background_jobs) :
                    OwnJob(background_jobs[i], job_id, user_id) }
    IN  /\ LockFree
        /\ req_no < MaxRequests
        /\ req_no' = req_no + 1
        /\ IF hits # {}
           THEN LET i == First(hits)
                    jobs == [ background_jobs EXCEPT
                                ![i] = Resumed(background_jobs[i], clock) ]
                IN  /\ background_jobs' = jobs
                    /\ data_files' = SaveData(user_data, bot_statistics, jobs)
                    /\ response' = Response("resume_job", job_id, user_id, TRUE, 0)
           ELSE /\ UNCHANGED << background_jobs, data_files >>
                /\ response' = Response("resume_job", job_id, user_id, FALSE, 0)
        /\ UNCHANGED << user_data, bot_statistics, uuid_counter, clock >>
        /\ UNCHANGED << SchedulerVars, StoreVars, WebVars, BuilderVars >>

\* stop_job_route, with the call of bot.stop_job it makes: stop_job stops the
\* first job that has the id.
StopJobRoute(job_id, user_id) ==
    LET found == { i \in Indices(background_jobs) :
                     StopAuthorized(background_jobs[i], job_id, user_id) }
        hits  == { i \in Indices(background_jobs) :
                     background_jobs[i].job_id = job_id }
    IN  /\ LockFree
        /\ req_no < MaxRequests
        /\ req_no' = req_no + 1
        /\ IF found # {}
           THEN LET i == First(hits)
                    jobs == [ background_jobs EXCEPT
                                ![i] = Stopped(background_jobs[i], clock, user_id) ]
                IN  /\ background_jobs' = jobs
                    /\ data_files' = SaveData(user_data, bot_statistics, jobs)
                    /\ response' = Response("stop_job", job_id, user_id, TRUE, 0)
           ELSE /\ UNCHANGED << background_jobs, data_files >>
                /\ response' = Response("stop_job", job_id, user_id, FALSE, 0)
        /\ UNCHANGED << user_data, bot_statistics, uuid_counter, clock >>
        /\ UNCHANGED << SchedulerVars, StoreVars, WebVars, BuilderVars >>

\* What the loop body of the bulk operation `op` assigns to a job of the group.
BulkChange(op, job, t) ==
    IF op = "pause_bulk_jobs" THEN Paused(job, t)
    ELSE IF op = "resume_bulk_jobs" THEN Resumed(job, t)
    ELSE BulkStopped(job, t)

\* The three bulk operations share their loop.
BulkJobs(op, bulk_group_id, user_id) ==
    LET hits == { i \in Indices(background_jobs) :
                    InGroup(background_jobs[i], bulk_group_id, user_id) }
        jobs == [ i \in Indices(background_jobs) |->
                    IF i \in hits THEN BulkChange(op, background_jobs[i], clock)
                                  ELSE background_jobs[i] ]
    IN  /\ LockFree
        /\ req_no < MaxRequests
        /\ req_no' = req_no + 1
        /\ IF Cardinality(hits) > 0
           THEN /\ background_jobs' = jobs
                /\ data_files' = SaveData(user_data, bot_statistics, jobs)
           ELSE UNCHANGED << background_jobs, data_files >>
        /\ response' = Response(op, bulk_group_id, user_id, TRUE, Cardinality(hits))
        /\ UNCHANGED << user_data, bot_statistics, uuid_counter, clock >>
        /\ UNCHANGED << SchedulerVars, StoreVars, WebVars, BuilderVars >>

PauseBulkJobs(bulk_group_id, user_id) ==
    BulkJobs("pause_bulk_jobs", bulk_group_id, user_id)

ResumeBulkJobs(bulk_group_id, user_id) ==
    BulkJobs("resume_bulk_jobs", bulk_group_id, user_id)

StopBulkJobs(bulk_group_id, user_id) ==
    BulkJobs("stop_bulk_jobs", bulk_group_id, user_id)

-----------------------------------------------------------------------------
(* Job creation, app.setup_automation *)

\* Variant of ClampFrequency that stores the frequency of the form as it is.
ClampFrequencyNever(frequency) == frequency

\* `if frequency < 5: frequency = 5`
ClampFrequency(frequency) ==
    IF frequency < MinFrequency THEN MinFrequency ELSE frequency

\* The bulk_group_id stored in a job made by the individual-settings loop.
IndividualGroupId(bulk_mode, bulk_group_id) ==
    IF bulk_mode THEN bulk_group_id ELSE None

\* The bulk_group_id of a job made by the "bulk or single job mode" loop: the
\* dict built there has no such key.
PlainGroupId(bulk_mode, bulk_group_id) == None

\* Individual settings mode: `for config in service_configs: for link in links`.
IndividualJobs(user_id, links, service_configs, bulk_group_id, first_id, t) ==
    [ k \in 1 .. (Len(service_configs) * Len(links)) |->
        LET config == service_configs[((k - 1) \div Len(links)) + 1]
            link   == links[((k - 1) % Len(links)) + 1]
        IN  NewJob(first_id + k - 1, user_id, config.service_id, link,
                   config.quantity, config.increase_range,
                   ClampFrequency(config.frequency),
                   IndividualGroupId(TRUE, bulk_group_id), t) ]

\* Variant of PlainJobs that makes one job per link, the service ids taken
\* in turn.
PlainJobsZipped(user_id, bulk_mode, links, all_service_ids, quantity, increase_range, frequency, bulk_group_id, first_id, t) ==
    [ k \in 1 .. Len(links) |->
        NewJob(first_id + k - 1, user_id,
               all_service_ids[((k - 1) % Len(all_service_ids)) + 1], links[k],
               quantity, increase_range, frequency,
               PlainGroupId(bulk_mode, bulk_group_id), t) ]

\* Bulk or single job mode: `for link in links: for sid in all_service_ids`.
PlainJobs(user_id, bulk_mode, links, all_service_ids, quantity, increase_range, frequency, bulk_group_id, first_id, t) ==
    [ k \in 1 .. (Len(links) * Len(all_service_ids)) |->
        LET link == links[((k - 1) \div Len(all_service_ids)) + 1]
            sid  == all_service_ids[((k - 1) % Len(all_service_ids)) + 1]
        IN  NewJob(first_id + k - 1, user_id, sid, link, quantity,
                   increase_range, frequency,
                   PlainGroupId(bulk_mode, bulk_group_id), t) ]

\* The form of one POST /setup_automation.
LinkLists == { << >>, << "l1" >>, << "l1", "l2" >> }

ServiceIdLists == { << >>, << "s2" >> }

Quantities == { 10 }

IncreaseRanges == { << 10, 20 >> }

Frequencies == { 3, 5 }

LongRunFrequencies == { 5, 35000000 }

LongRunRanges == { <<10, 10>> }

LongRunLinkLists == { <<"l1">> }

HugeFrequencies == { 35000000 }

\* What the form accepts for quantity, increase_min and increase_max: any
\* number, a negative or an inverted range included.
GrowthQuantities == { 1, 100 }

GrowthRanges == { <<10, 20>>, <<100, 100>>, <<0 - 50, 0 - 10>>, <<20, 10>> }

ServiceConfig(sid, frequency) ==
    [ service_id |-> sid, quantity |-> 10, increase_range |-> << 10, 20 >>,
      frequency |-> frequency ]

ServiceConfigLists ==
    { << >>, << ServiceConfig("s1", 3) >>,
      << ServiceConfig("s1", 5), ServiceConfig("s2", 5) >> }

SetupAutomationWithin(max_jobs, user_id, bulk_mode, individual_settings, form_links, bulk_service_ids, service_configs, quantity, increase_range, form_frequency) ==
    LET frequency     == ClampFrequency(form_frequency)
        \* bulk mode draws the group's uuid before any job's
        bulk_group_id == IF bulk_mode THEN uuid_counter + 1 ELSE None
        first_id      == IF bulk_mode THEN uuid_counter + 2 ELSE uuid_counter + 1
        links         == IF bulk_mode THEN form_links ELSE << "l1" >>
        rejected      == \/ bulk_mode /\ links = << >>
                         \/ bulk_mode /\ Len(links) > 10
                         \/ bulk_mode /\ individual_settings
                                      /\ service_configs = << >>
        created_jobs  ==
            IF individual_settings /\ bulk_mode
            THEN IndividualJobs(user_id, links, service_configs, bulk_group_id,
                                first_id, clock)
            ELSE PlainJobs(user_id, bulk_mode, links,
                           << "s1" >> \o bulk_service_ids, quantity,
                           increase_range, frequency, bulk_group_id, first_id,
                           clock)
        jobs          == background_jobs \o created_jobs
    IN  /\ LockFree
        /\ req_no < MaxRequests
        /\ req_no' = req_no + 1
        /\ IF rejected
           THEN /\ UNCHANGED << background_jobs, data_files >>
                /\ uuid_counter' = IF bulk_mode THEN uuid_counter + 1
                                                ELSE uuid_counter
                /\ response' = Response("setup_automation", None, user_id, FALSE, 0)
           ELSE /\ Len(jobs) <= max_jobs
                /\ background_jobs' = jobs
                /\ data_files' = SaveData(user_data, bot_statistics, jobs)
                /\ uuid_counter' = first_id + Len(created_jobs) - 1
                /\ response' = Response("setup_automation", None, user_id, TRUE,
                                        Len(created_jobs))
        /\ UNCHANGED << user_data, bot_statistics, clock >>
        /\ UNCHANGED << SchedulerVars, StoreVars, WebVars, BuilderVars >>

\* The same request with the model's usual number of jobs.
SetupAutomation(user_id, bulk_mode, individual_settings, form_links, bulk_service_ids, service_configs, quantity, increase_range, form_frequency) ==
    SetupAutomationWithin(MaxJobs, user_id, bulk_mode, individual_settings,
                          form_links, bulk_service_ids, service_configs,
                          quantity, increase_range, form_frequency)

-----------------------------------------------------------------------------
(* Order dispatcher, bot.place_order *)

\* What connect_smm_panel can return for action 'add': a reply with an order
\* identifier, or an error reply (timeout, connection error, non-200, bad JSON).
PanelReplies == { "order", "error" }

\* The panel may also answer with JSON that is no container (null, a number,
\* true): `"order" in new_order` raises on it.
AnyReplies == PanelReplies \cup { "null" }

\* The counters after one place_order: total_orders is counted before the
\* reply is looked at, and the test of the reply raises on a reply that is no
\* container, which leaves the two other counters alone.
CountOrder(stats, reply) ==
    [ stats EXCEPT
        !.total_orders      = @ + 1,
        !.successful_orders = IF reply = "order" THEN @ + 1 ELSE @,
        !.failed_orders     = IF reply \in { "order", "null" } THEN @ ELSE @ + 1 ]

\* What place_order returns: the panel's reply, or an error of its own when
\* handling the reply raised.
PlaceOrderReturn(reply) == IF reply = "null" THEN "error" ELSE reply

-----------------------------------------------------------------------------
(* Scheduler, bot.process_automation_jobs *)

\* Variant of SkipJob that skips nothing.
SkipJobNever(job) == FALSE

\* Variant of SkipJob that also skips a job whose last order was refused.
SkipJobAfterRefusal(job) ==
    \/ job.stopped
    \/ Len(job.orders) > 0 /\ job.orders[Len(job.orders)].response = "error"

\* `if job.get('stopped', False)`: the job is kept as it is.
SkipJob(job) == job.stopped

\* Variant of IsDue that waits until the instant of next_run has gone by.
IsDueLater(job, t) == t > job.next_run

\* `if now >= job.get('next_run', 0)`
IsDue(job, t) == t >= job.next_run

\* Variant of HasUserData that takes every owner for present.
HasUserDataAlways(job, ud) == TRUE

\* `if user_id not in user_data` keeps the job as it is.
HasUserData(job, ud) == job.user_id \in DOMAIN ud

\* Variant of OnJobError that retires the job at its first error.
OnJobErrorRetiringAtOnce(job) ==
    [ job EXCEPT !.error_count = @ + 1, !.stopped = TRUE,
                 !.stopped_reason = "Too many errors" ]

\* Variant of OnJobError that retires the job when the count reaches the
\* threshold.
OnJobErrorRetiringAtThreshold(job) ==
    LET counted == [ job EXCEPT !.error_count = @ + 1 ]
    IN  IF counted.error_count >= ErrorThreshold
        THEN [ counted EXCEPT !.stopped = TRUE,
                              !.stopped_reason = "Too many errors" ]
        ELSE counted

\* Variant of OnJobError that makes the job due again at once.
OnJobErrorRetryingAtOnce(job) ==
    LET counted == [ job EXCEPT !.error_count = @ + 1, !.next_run = 0 ]
    IN  IF counted.error_count > ErrorThreshold
        THEN [ counted EXCEPT !.stopped = TRUE,
                              !.stopped_reason = "Too many errors" ]
        ELSE counted

\* The except branch of the loop body: count the error, retire the job once
\* the count exceeds the threshold.
OnJobError(job) ==
    LET counted == [ job EXCEPT !.error_count = @ + 1 ]
    IN  IF counted.error_count > ErrorThreshold
        THEN [ counted EXCEPT !.stopped = TRUE,
                              !.stopped_reason = "Too many errors" ]
        ELSE counted

\* Variant of Fired that takes the frequency for seconds.
FiredInSeconds(job, order_info, next_quantity, t) ==
    [ job EXCEPT !.orders   = Append(@, order_info),
                 !.quantity = next_quantity,
                 !.next_run = t + job.frequency ]

\* Variant of Fired that counts a refused order as an error of the job.
FiredCountingRefusal(job, order_info, next_quantity, t) ==
    [ job EXCEPT !.orders      = Append(@, order_info),
                 !.quantity    = next_quantity,
                 !.next_run    = t + (job.frequency * SecondsPerMinute),
                 !.error_count = IF order_info.response = "error" THEN @ + 1 ELSE @ ]

\* Variant of Fired that puts the new entry in front of the history.
FiredPrepending(job, order_info, next_quantity, t) ==
    [ job EXCEPT !.orders   = << order_info >> \o @,
                 !.quantity = next_quantity,
                 !.next_run = t + (job.frequency * SecondsPerMinute) ]

\* The job after a fire: history entry appended, new quantity, new next_run.
Fired(job, order_info, next_quantity, t) ==
    [ job EXCEPT !.orders   = Append(@, order_info),
                 !.quantity = next_quantity,
                 !.next_run = t + (job.frequency * SecondsPerMinute) ]

OrderInfo(job, reply, timestamp) ==
    [ timestamp |-> timestamp, quantity |-> job.quantity, response |-> reply,
      job_id |-> job.job_id ]

\* `now = int(time.time())` at the top of the while loop, after the sleep.
TickStart ==
    /\ pc = "sleep"
    /\ clock >= wake_at
    /\ pc' = "snap"
    /\ now' = clock
    /\ UNCHANGED << user_data, background_jobs, bot_statistics, data_files,
                    uuid_counter, clock, idx, updated_jobs, wake_at, response,
                    req_no >>
    /\ UNCHANGED << StoreVars, WebVars, BuilderVars >>

\* `with data_lock: updated_jobs = []`
TickAcquire ==
    /\ pc = "snap"
    /\ pc' = "loop"
    /\ idx' = 1
    /\ updated_jobs' = << >>
    /\ UNCHANGED << user_data, background_jobs, bot_statistics, data_files,
                    uuid_counter, clock, now, wake_at, response, req_no >>
    /\ UNCHANGED << StoreVars, WebVars, BuilderVars >>

\* One iteration of `for job in background_jobs`, the lock being held.
TickJobStep(max_orders, replies) ==
    /\ pc = "loop"
    /\ idx <= Len(background_jobs)
    /\ idx' = idx + 1
    /\ LET job == background_jobs[idx]
       IN  IF SkipJob(job)
           THEN /\ updated_jobs' = Append(updated_jobs, job)
                /\ UNCHANGED << user_data, background_jobs, bot_statistics,
                                data_files >>
           ELSE IF job.next_run > 0 /\ FromTimestampRaises(job.next_run)
           THEN \* the debug line formats next_run and raises
                LET failed == OnJobError(job)
                IN  /\ background_jobs' = [ background_jobs EXCEPT ![idx] = failed ]
                    /\ updated_jobs' = Append(updated_jobs, failed)
                    /\ UNCHANGED << user_data, bot_statistics, data_files >>
           ELSE IF IsDue(job, now) /\ HasUserData(job, user_data)
           THEN \E reply \in replies :
                \E next_quantity \in NextQuantities(job.quantity, job.increase_range) :
                  LET stats      == CountOrder(bot_statistics, reply)
                      order_info == OrderInfo(job, PlaceOrderReturn(reply), clock)
                      users      == [ user_data EXCEPT ![job.user_id].orders =
                                        Append(@, order_info) ]
                      fired      == Fired(job, order_info, next_quantity, now)
                      \* formatting the new next_run for the notification raises
                      kept       == IF FromTimestampRaises(fired.next_run)
                                    THEN OnJobError(fired) ELSE fired
                  IN  /\ bot_statistics.total_orders < max_orders
                      /\ bot_statistics' = stats
                      \* place_order saves before the job is updated
                      /\ data_files' = SaveData(user_data, stats, background_jobs)
                      /\ user_data' = users
                      /\ background_jobs' = [ background_jobs EXCEPT ![idx] = kept ]
                      /\ updated_jobs' = Append(updated_jobs, kept)
           ELSE /\ updated_jobs' = Append(updated_jobs, job)
                /\ UNCHANGED << user_data, background_jobs, bot_statistics,
                                data_files >>
    /\ UNCHANGED << uuid_counter, clock, pc, now, wake_at, response, req_no >>
    /\ UNCHANGED << StoreVars, WebVars, BuilderVars >>

TickJob == TickJobStep(MaxOrders, PanelReplies)

\* The same iteration when the panel answers every order with an error.
TickJobFailing == TickJobStep(MaxFailedOrders, { "error" })

\* The same iteration when the panel accepts every order.
TickJobAccepted == TickJobStep(MaxOrders, { "order" })

\* The same iteration when the panel answers with any JSON.
TickJobAnyReply == TickJobStep(MaxOrders, AnyReplies)

\* Variant of TickEnd whose write-back keeps the running jobs only.
TickEndDroppingStopped ==
    /\ pc = "loop"
    /\ idx > Len(background_jobs)
    /\ background_jobs' = SelectSeq(updated_jobs, LAMBDA job : ~job.stopped)
    /\ data_files' = SaveData(user_data, bot_statistics, background_jobs')
    /\ pc' = "sleep"
    /\ wake_at' = clock + PollInterval
    /\ now' = 0
    /\ idx' = 1
    /\ updated_jobs' = << >>
    /\ UNCHANGED << user_data, bot_statistics, uuid_counter, clock, response,
                    req_no >>
    /\ UNCHANGED << StoreVars, WebVars, BuilderVars >>

\* After the loop: write updated_jobs back, save, release the lock, sleep.
\* The locals of the finished pass (now, updated_jobs, the loop position) are
\* dead until the next pass sets them again.
TickEnd ==
    /\ pc = "loop"
    /\ idx > Len(background_jobs)
    /\ background_jobs' = updated_jobs
    /\ data_files' = SaveData(user_data, bot_statistics, updated_jobs)
    /\ pc' = "sleep"
    /\ wake_at' = clock + PollInterval
    /\ now' = 0
    /\ idx' = 1
    /\ updated_jobs' = << >>
    /\ UNCHANGED << user_data, bot_statistics, uuid_counter, clock, response,
                    req_no >>
    /\ UNCHANGED << StoreVars, WebVars, BuilderVars >>

\* Time passes: the clock moves to a later instant of `times`.
AdvanceTo(times) ==
    \E t \in times :
        /\ t > clock
        /\ clock' = t
        /\ UNCHANGED << user_data, background_jobs, bot_statistics, data_files,
                        uuid_counter, pc, now, idx, updated_jobs, wake_at,
                        response, req_no >>
        /\ UNCHANGED << StoreVars, WebVars, BuilderVars >>

Advance == AdvanceTo(Times)

AdvanceLong == AdvanceTo({t \in LongRunTimes : t <= clock + 300})

AdvancePoll == AdvanceTo({t \in PollTimes : t <= clock + PollInterval})

-----------------------------------------------------------------------------
(* Accounts, app.register and app.connect_telegram *)

Chats == { "c1", "c2" }

NewUsers == { "carol" }

\* The accounts in the order in which the user_data dict holds them.
AccountOrder == << "matrix", "alice", "bob", "carol" >>

WebFrame ==
    UNCHANGED << background_jobs, uuid_counter, clock, response, req_no,
                 SchedulerVars, StoreVars, BuilderVars >>

\* POST /register up to its save_data: the account is written to user_data
\* and the active-user counter is updated, without taking data_lock.
RegisterWrite(username, telegram_id) ==
    /\ reg_pc = Idle
    /\ username \notin DOMAIN user_data
    /\ user_data' = [ u \in DOMAIN user_data \cup { username } |->
                        IF u = username
                        THEN NewAccount(telegram_id)
                        ELSE user_data[u] ]
    /\ bot_statistics' = [ bot_statistics EXCEPT !.active_users = @ + 1 ]
    /\ reg_pc' = "register_save"
    /\ UNCHANGED data_files
    /\ WebFrame

\* POST /connect_telegram up to its save_data: the chat is written to the
\* account, replacing the chat linked before, without taking data_lock.
ConnectWrite(user_id, telegram_id) ==
    /\ reg_pc = Idle
    /\ user_id \in DOMAIN user_data
    /\ user_data' = [ user_data EXCEPT ![user_id].telegram_id = telegram_id ]
    /\ reg_pc' = "connect_save"
    /\ UNCHANGED << bot_statistics, data_files >>
    /\ WebFrame

\* The save_data of either handler: it waits for data_lock.
WebSave ==
    /\ reg_pc \in { "register_save", "connect_save" }
    /\ LockFree
    /\ data_files' = SaveData(user_data, bot_statistics, background_jobs)
    /\ reg_pc' = IF reg_pc = "register_save" THEN "register_count" ELSE Idle
    /\ UNCHANGED << user_data, bot_statistics >>
    /\ WebFrame

\* register after its save_data: bot_statistics['total_users'] = len(user_data).
RegisterCount ==
    /\ reg_pc = "register_count"
    /\ bot_statistics' = [ bot_statistics EXCEPT
                             !.total_users = Cardinality(DOMAIN user_data) ]
    /\ reg_pc' = Idle
    /\ UNCHANGED << user_data, data_files >>
    /\ WebFrame

-----------------------------------------------------------------------------
(* The /newjob builder, bot.handle_telegram_update *)

\* A message read as a number: int(text) succeeds or raises.
IntText(n) == [ numeric |-> TRUE, value |-> n ]

NotANumber == [ numeric |-> FALSE, value |-> 0 ]

NoSessionData ==
    [ api_urls |-> << >>, api_keys |-> << >>, target_links |-> << >>,
      service_ids |-> << >>, quantity |-> NotANumber, increase |-> << >> ]

NoSession == [ step |-> "none", data |-> NoSessionData ]

NewJobSession(step, data) == [ step |-> step, data |-> data ]

\* The lists a message yields, one entry per non-blank line; a message without
\* text yields the empty list.
ElevenLinks == << "l1", "l2", "l3", "l4", "l5", "l6", "l7", "l8", "l9", "l10", "l11" >>

UrlInputs == { << "u1" >>, << "u1", "u2" >> }

KeyInputs == { << >>, << "k1" >>, << "k1", "k2" >> }

LinkInputs == { << "l1" >>, << "l1", "l2" >>, ElevenLinks }

ServiceInputs == { << "s1" >>, << "s1", "s2" >> }

QuantityInputs == { IntText(50), IntText(0), NotANumber }

\* The numbers of a growth message split at the dash; none when the first part
\* is not a number.
GrowthInputs == { << 10, 20 >>, << 20, 10 >>, << >> }

FrequencyInputs == { IntText(10), IntText(3), NotANumber }

\* find_user_by_telegram_id: the first account linked to the chat.
FindUserByTelegramId(ud, chat_id) ==
    LET linked == SelectSeq(AccountOrder,
                            LAMBDA u : u \in DOMAIN ud /\ ud[u].telegram_id = chat_id)
    IN  IF Len(linked) > 0 THEN linked[1] ELSE "None"

\* Variant of ValidateJobParameters that accepts any frequency.
ValidateJobParametersAnyFrequency(quantity, increase_min, increase_max, frequency) ==
    /\ quantity.numeric
    /\ frequency.numeric
    /\ quantity.value > 0
    /\ 0 <= increase_min /\ increase_min <= 100
    /\ 0 <= increase_max /\ increase_max <= 100
    /\ increase_min <= increase_max

\* validate_job_parameters: a conversion that raises makes it False.
ValidateJobParameters(quantity, increase_min, increase_max, frequency) ==
    /\ quantity.numeric
    /\ frequency.numeric
    /\ quantity.value > 0
    /\ 0 <= increase_min /\ increase_min <= 100
    /\ 0 <= increase_max /\ increase_max <= 100
    /\ increase_min <= increase_max
    /\ frequency.value >= MinTelegramFrequency

\* The job dict built by create_jobs_from_telegram.
TelegramJob(job_id, user_id, api_url, api_key, service_id, link, quantity, increase_range, frequency, t) ==
    [ NewJob(job_id, user_id, service_id, link, quantity, increase_range,
             frequency, None, t)
      EXCEPT !.api_url = api_url, !.api_key = api_key ]

\* Variant of TelegramJobCount that counts the API keys as well.
TelegramJobCountWithKeys(data) ==
    Min2(MaxTelegramJobs,
         Max2(Max2(Len(data.api_urls), Len(data.api_keys)),
              Max2(Len(data.target_links), Len(data.service_ids))))

\* max_jobs: the longest of the three lists, at most ten.
TelegramJobCount(data) ==
    Min2(MaxTelegramJobs,
         Max2(Len(data.api_urls),
              Max2(Len(data.target_links), Len(data.service_ids))))

\* `values[i] if i < len(values) else values[0]`, counting from one.
Pick(list, i) == IF i <= Len(list) THEN list[i] ELSE list[1]

\* values[0] of an empty list raises; the except clause returns 0.
CreationRaises(data) ==
    /\ TelegramJobCount(data) > 0
    /\ \/ Len(data.api_urls) = 0
       \/ Len(data.api_keys) = 0
       \/ Len(data.service_ids) = 0
       \/ Len(data.target_links) = 0

\* created_jobs of create_jobs_from_telegram.
CreatedJobs(user_id, data, frequency, t, counter) ==
    IF CreationRaises(data)
    THEN << >>
    ELSE [ i \in 1 .. TelegramJobCount(data) |->
             TelegramJob(counter + i, user_id, Pick(data.api_urls, i),
                         Pick(data.api_keys, i), Pick(data.service_ids, i),
                         Pick(data.target_links, i), data.quantity.value,
                         data.increase, frequency.value, t) ]

\* The pairs the connectivity probes go through: zip(api_urls, api_keys).
ProbedPairs(data) == 1 .. Min2(Len(data.api_urls), Len(data.api_keys))

BuilderFrame ==
    UNCHANGED << user_data, bot_statistics, clock, SchedulerVars, StoreVars,
                 WebVars >>

\* The message /newjob: a session is stored at the first step when the chat is
\* linked to an account.
NewJobCommand(chat_id) ==
    /\ req_no < MaxSessions
    /\ LET user_id == FindUserByTelegramId(user_data, chat_id)
       IN  IF user_id # "None"
           THEN /\ telegram_user_sessions' =
                     [ telegram_user_sessions EXCEPT
                         ![chat_id] = NewJobSession("api_urls", NoSessionData) ]
                /\ req_no' = req_no + 1
                /\ response' = Response("newjob_started", None, user_id, TRUE, 0)
           ELSE /\ response' = Response("newjob_not_connected", None, "None", FALSE, 0)
                /\ UNCHANGED << telegram_user_sessions, req_no >>
    /\ UNCHANGED << background_jobs, data_files, uuid_counter >>
    /\ BuilderFrame

\* Variant of BuilderAdvance that stores the reply and stays at the step.
BuilderAdvanceStaying(chat_id, user_id, step, data) ==
    /\ telegram_user_sessions' =
         [ telegram_user_sessions EXCEPT
             ![chat_id] = NewJobSession(telegram_user_sessions[chat_id].step, data) ]
    /\ response' = Response("newjob_prompt", None, user_id, TRUE, 0)
    /\ UNCHANGED << background_jobs, data_files, uuid_counter >>

\* A step of the builder that stores the message and moves to the next step.
BuilderAdvance(chat_id, user_id, step, data) ==
    /\ telegram_user_sessions' =
         [ telegram_user_sessions EXCEPT ![chat_id] = NewJobSession(step, data) ]
    /\ response' = Response("newjob_prompt", None, user_id, TRUE, 0)
    /\ UNCHANGED << background_jobs, data_files, uuid_counter >>

\* The builder's last step: validation, the probes, the creation; the session
\* is cleared on every path.
BuilderFinish(chat_id, user_id, data, frequency) ==
    /\ telegram_user_sessions' = [ telegram_user_sessions EXCEPT ![chat_id] = NoSession ]
    /\ IF ~ValidateJobParameters(data.quantity, data.increase[1], data.increase[2], frequency)
       THEN /\ response' = Response("newjob_invalid", None, user_id, FALSE, 0)
            /\ UNCHANGED << background_jobs, data_files, uuid_counter >>
       ELSE \/ /\ ProbedPairs(data) # {}
               /\ response' = Response("newjob_probe_failed", None, user_id, FALSE, 0)
               /\ UNCHANGED << background_jobs, data_files, uuid_counter >>
            \/ LET created_jobs == CreatedJobs(user_id, data, frequency, clock, uuid_counter)
                   jobs         == background_jobs \o created_jobs
               IN  /\ LockFree
                   /\ background_jobs' = jobs
                   /\ uuid_counter' = uuid_counter + Len(created_jobs)
                   /\ data_files' = IF CreationRaises(data)
                                    THEN data_files
                                    ELSE SaveData(user_data, bot_statistics, jobs)
                   /\ response' = IF Len(created_jobs) > 0
                                  THEN Response("newjob_created", None, user_id,
                                                TRUE, Len(created_jobs))
                                  ELSE Response("newjob_failed", None, user_id,
                                                FALSE, 0)

\* Any other message of a chat: it is handed to the builder when the chat has
\* a session, and the builder acts on it when the chat is linked to an account.
BuilderInput(chat_id) ==
    /\ telegram_user_sessions[chat_id].step # "none"
    /\ LET session == telegram_user_sessions[chat_id]
           data    == session.data
           user_id == FindUserByTelegramId(user_data, chat_id)
       IN  IF user_id = "None"
           THEN /\ response' = Response("newjob_ignored", None, "None", FALSE, 0)
                /\ UNCHANGED << telegram_user_sessions, background_jobs,
                                data_files, uuid_counter >>
           ELSE CASE session.step = "api_urls" ->
                       \E api_urls \in UrlInputs :
                           BuilderAdvance(chat_id, user_id, "api_keys",
                                          [ data EXCEPT !.api_urls = api_urls ])
                  [] session.step = "api_keys" ->
                       \E api_keys \in KeyInputs :
                           BuilderAdvance(chat_id, user_id, "target_links",
                                          [ data EXCEPT !.api_keys = api_keys ])
                  [] session.step = "target_links" ->
                       \E target_links \in LinkInputs :
                           BuilderAdvance(chat_id, user_id, "service_ids",
                                          [ data EXCEPT !.target_links = target_links ])
                  [] session.step = "service_ids" ->
                       \E service_ids \in ServiceInputs :
                           BuilderAdvance(chat_id, user_id, "quantity",
                                          [ data EXCEPT !.service_ids = service_ids ])
                  [] session.step = "quantity" ->
                       \E quantity \in QuantityInputs :
                           BuilderAdvance(chat_id, user_id, "growth_rate",
                                          [ data EXCEPT !.quantity = quantity ])
                  [] session.step = "growth_rate" ->
                       \E minmax \in GrowthInputs :
                           IF Len(minmax) = 0
                           THEN /\ response' = Response("newjob_reprompt", None,
                                                        user_id, FALSE, 0)
                                /\ UNCHANGED << telegram_user_sessions,
                                                background_jobs, data_files,
                                                uuid_counter >>
                           ELSE BuilderAdvance(chat_id, user_id, "frequency",
                                               [ data EXCEPT !.increase =
                                                   << minmax[1],
                                                      IF Len(minmax) > 1
                                                      THEN minmax[2]
                                                      ELSE minmax[1] >> ])
                  [] session.step = "frequency" ->
                       \E frequency \in FrequencyInputs :
                           BuilderFinish(chat_id, user_id, data, frequency)
    /\ UNCHANGED req_no
    /\ BuilderFrame

\* The button of a bulk template: store_user_session replaces everything the
\* chat has stored, its /newjob session included.
BulkTemplateCallback(chat_id) ==
    /\ telegram_user_sessions[chat_id].step # "none"
    /\ telegram_user_sessions' = [ telegram_user_sessions EXCEPT ![chat_id] = NoSession ]
    /\ response' = Response("bulk_template", None, "None", TRUE, 0)
    /\ UNCHANGED << background_jobs, data_files, uuid_counter, req_no >>
    /\ BuilderFrame

-----------------------------------------------------------------------------
(* Persistence, config.save_data and config.load_data *)

\* The collections in the order of save_data's data_files dict.
Collections == << "user_data", "bot_statistics", "background_jobs" >>

TempFile(c) == << "data/temp", c >>

\* tmp_file.replace(f"{temp_dir}/", "data/").replace(".tmp", "")
FinalFile(tmp_file) == << "data", tmp_file[2] >>

Paths == { TempFile(Collections[k]) : k \in 1 .. Len(Collections) } \cup
         { FinalFile(TempFile(Collections[k])) : k \in 1 .. Len(Collections) }

\* What a path holds: nothing, the empty file open(path, "w") leaves, or the
\* text json.dump wrote before the file was closed.
Absent == [ exists |-> FALSE, complete |-> FALSE, text |-> << >> ]

Truncated == [ exists |-> TRUE, complete |-> FALSE, text |-> << >> ]

Written(text) == [ exists |-> TRUE, complete |-> TRUE, text |-> text ]

\* A JSON object is the sequence of its members << key, value >>; a key the
\* Python dict does not hold is not written.
Optional(key, value, absent) ==
    IF value = absent THEN << >> ELSE << << key, value >> >>

\* dict.get(key, default) on a decoded object.
Lookup(obj, key, default) ==
    IF \E k \in 1 .. Len(obj) : obj[k][1] = key
    THEN obj[CHOOSE k \in 1 .. Len(obj) : obj[k][1] = key][2]
    ELSE default

\* Variant of JsonBool that writes Python's repr of the boolean.
JsonBoolAsRepr(b) == IF b THEN "True" ELSE "False"

\* json.dump writes a boolean as true or false; json.load reads it back.
JsonBool(b) == IF b THEN "true" ELSE "false"

LoadBool(token) == token = "true"

DumpOrder(order_info) ==
    << << "timestamp", order_info.timestamp >>,
       << "quantity", order_info.quantity >>,
       << "response", order_info.response >>,
       << "job_id", order_info.job_id >> >>

LoadOrder(obj) ==
    [ timestamp |-> Lookup(obj, "timestamp", NoTime),
      quantity  |-> Lookup(obj, "quantity", 0),
      response  |-> Lookup(obj, "response", "None"),
      job_id    |-> Lookup(obj, "job_id", None) ]

DumpOrders(orders) == [ k \in 1 .. Len(orders) |-> DumpOrder(orders[k]) ]

LoadOrders(text) == [ k \in 1 .. Len(text) |-> LoadOrder(text[k]) ]

\* json.dump of one job dict: the keys setup_automation sets, then those the
\* lifecycle handlers and the scheduler add.
DumpJob(job) ==
    << << "job_id", job.job_id >>,
       << "user_id", job.user_id >>,
       << "api_url", job.api_url >>,
       << "api_key", job.api_key >>,
       << "service_id", job.service_id >>,
       << "link", job.link >>,
       << "quantity", job.quantity >>,
       << "increase_range", job.increase_range >>,
       << "frequency", job.frequency >>,
       << "next_run", job.next_run >>,
       << "stopped", JsonBool(job.stopped) >>,
       << "orders", DumpOrders(job.orders) >> >>
    \o Optional("paused", JsonBool(job.paused), JsonBool(FALSE))
    \o Optional("bulk_group_id", job.bulk_group_id, None)
    \o Optional("paused_at", job.paused_at, NoTime)
    \o Optional("resumed_at", job.resumed_at, NoTime)
    \o Optional("stopped_at", job.stopped_at, NoTime)
    \o Optional("stopped_by", job.stopped_by, "None")
    \o Optional("stopped_reason", job.stopped_reason, "None")
    \o Optional("error_count", job.error_count, 0)

\* The job dict json.load returns, read with the defaults of job.get.
LoadJob(obj) ==
    [ job_id         |-> Lookup(obj, "job_id", None),
      user_id        |-> Lookup(obj, "user_id", "None"),
      api_url        |-> Lookup(obj, "api_url", "None"),
      api_key        |-> Lookup(obj, "api_key", "None"),
      service_id     |-> Lookup(obj, "service_id", "None"),
      link           |-> Lookup(obj, "link", "None"),
      quantity       |-> Lookup(obj, "quantity", 0),
      increase_range |-> Lookup(obj, "increase_range", << >>),
      frequency      |-> Lookup(obj, "frequency", 0),
      next_run       |-> Lookup(obj, "next_run", 0),
      stopped        |-> LoadBool(Lookup(obj, "stopped", JsonBool(FALSE))),
      paused         |-> LoadBool(Lookup(obj, "paused", JsonBool(FALSE))),
      bulk_group_id  |-> Lookup(obj, "bulk_group_id", None),
      paused_at      |-> Lookup(obj, "paused_at", NoTime),
      resumed_at     |-> Lookup(obj, "resumed_at", NoTime),
      stopped_at     |-> Lookup(obj, "stopped_at", NoTime),
      stopped_by     |-> Lookup(obj, "stopped_by", "None"),
      stopped_reason |-> Lookup(obj, "stopped_reason", "None"),
      error_count    |-> Lookup(obj, "error_count", 0),
      orders         |-> LoadOrders(Lookup(obj, "orders", << >>)) ]

DumpJobs(jobs) == [ k \in 1 .. Len(jobs) |-> DumpJob(jobs[k]) ]

LoadJobs(text) == [ k \in 1 .. Len(text) |-> LoadJob(text[k]) ]

DumpStats(stats) ==
    << << "total_orders", stats.total_orders >>,
       << "successful_orders", stats.successful_orders >>,
       << "failed_orders", stats.failed_orders >>,
       << "total_users", stats.total_users >>,
       << "active_users", stats.active_users >> >>

LoadStats(obj) ==
    [ total_orders      |-> Lookup(obj, "total_orders", 0),
      successful_orders |-> Lookup(obj, "successful_orders", 0),
      failed_orders     |-> Lookup(obj, "failed_orders", 0),
      total_users       |-> Lookup(obj, "total_users", 0),
      active_users      |-> Lookup(obj, "active_users", 0) ]

\* A template is a dict of strings and numbers: it is written member by
\* member and read back as the same dict.
DumpTemplate(template) ==
    << << "id", template.id >>, << "service_id", template.service_id >>,
       << "quantity", template.quantity >>,
       << "increase_min", template.increase_min >>,
       << "increase_max", template.increase_max >>,
       << "frequency", template.frequency >>,
       << "usage_count", template.usage_count >> >>

LoadTemplate(obj) ==
    [ id           |-> Lookup(obj, "id", None),
      service_id   |-> Lookup(obj, "service_id", "None"),
      quantity     |-> Lookup(obj, "quantity", 0),
      increase_min |-> Lookup(obj, "increase_min", 0),
      increase_max |-> Lookup(obj, "increase_max", 0),
      frequency    |-> Lookup(obj, "frequency", 0),
      usage_count  |-> Lookup(obj, "usage_count", 0) ]

DumpUser(user) ==
    << << "orders", DumpOrders(user.orders) >>,
       << "templates", [ k \in Indices(user.templates) |->
                           DumpTemplate(user.templates[k]) ] >> >>
    \o Optional("telegram_id", user.telegram_id, "None")

LoadUser(obj) ==
    LET templates == Lookup(obj, "templates", << >>)
    IN  [ orders      |-> LoadOrders(Lookup(obj, "orders", << >>)),
          telegram_id |-> Lookup(obj, "telegram_id", "None"),
          templates   |-> [ k \in Indices(templates) |->
                              LoadTemplate(templates[k]) ] ]

DumpUsers(ud) ==
    LET names == SelectSeq(AccountOrder, LAMBDA u : u \in DOMAIN ud)
    IN  [ k \in 1 .. Len(names) |-> << names[k], DumpUser(ud[names[k]]) >> ]

LoadUsers(text) ==
    [ u \in { text[k][1] : k \in 1 .. Len(text) } |->
        LoadUser(Lookup(text, u, << >>)) ]

\* json.dump(data, f) for the collection a temporary file is written from.
DumpCollection(c, ud, stats, jobs) ==
    CASE c = "user_data"       -> DumpUsers(ud)
      [] c = "bot_statistics"  -> DumpStats(stats)
      [] c = "background_jobs" -> DumpJobs(jobs)

\* The collections at module level, before load_data has read a file.
NoUsers == [ u \in {} |-> NewAccount("None") ]

NoStatistics ==
    [ total_orders |-> 0, successful_orders |-> 0, failed_orders |-> 0,
      total_users |-> 0, active_users |-> 0 ]

\* load_data reads a permanent file when it exists and json.load accepts it;
\* otherwise the collection keeps its module-level value.
Readable(file) == file.exists /\ file.complete

LoadedUsers(files) ==
    LET file == files[FinalFile(TempFile("user_data"))]
    IN  IF Readable(file) THEN LoadUsers(file.text) ELSE NoUsers

LoadedStats(files) ==
    LET file == files[FinalFile(TempFile("bot_statistics"))]
    IN  IF Readable(file) THEN LoadStats(file.text) ELSE NoStatistics

LoadedJobs(files) ==
    LET file == files[FinalFile(TempFile("background_jobs"))]
    IN  IF Readable(file) THEN LoadJobs(file.text) ELSE << >>

\* The files after a save_data that ran to its end.
SavedFiles(ud, stats, jobs) ==
    [ p \in Paths |-> IF p[1] = "data"
                      THEN Written(DumpCollection(p[2], ud, stats, jobs))
                      ELSE Absent ]


StoreFrame ==
    UNCHANGED << uuid_counter, clock, pc, now, idx, updated_jobs, wake_at,
                 response, req_no, reg_pc, telegram_user_sessions >>

\* save_data is called and takes the lock.
SaveBegin ==
    /\ save_pc[1] = Idle
    /\ LockFree
    /\ save_pc' = << "open", 1 >>
    /\ UNCHANGED << user_data, background_jobs, bot_statistics, data_files, disk >>
    /\ StoreFrame

\* `with open(tmp_file, "w") as f`: the temporary file is created empty.
SaveOpen ==
    /\ save_pc[1] = "open"
    /\ disk' = [ disk EXCEPT ![TempFile(Collections[save_pc[2]])] = Truncated ]
    /\ save_pc' = << "dump", save_pc[2] >>
    /\ UNCHANGED << user_data, background_jobs, bot_statistics, data_files >>
    /\ StoreFrame

\* json.dump(data, f), then the file is closed; after the last collection the
\* renaming loop starts.
SaveDump ==
    /\ save_pc[1] = "dump"
    /\ LET c == Collections[save_pc[2]]
       IN  disk' = [ disk EXCEPT ![TempFile(c)] =
                       Written(DumpCollection(c, user_data, bot_statistics,
                                              background_jobs)) ]
    /\ save_pc' = IF save_pc[2] < Len(Collections)
                  THEN << "open", save_pc[2] + 1 >>
                  ELSE << "remove", 1 >>
    /\ UNCHANGED << user_data, background_jobs, bot_statistics, data_files >>
    /\ StoreFrame

\* `if os.path.exists(final_file): os.remove(final_file)`.
SaveRemove ==
    /\ save_pc[1] = "remove"
    /\ LET tmp_file   == TempFile(Collections[save_pc[2]])
           final_file == FinalFile(tmp_file)
       IN  disk' = IF disk[tmp_file].exists /\ disk[final_file].exists
                   THEN [ disk EXCEPT ![final_file] = Absent ]
                   ELSE disk
    /\ save_pc' = << "rename", save_pc[2] >>
    /\ UNCHANGED << user_data, background_jobs, bot_statistics, data_files >>
    /\ StoreFrame

\* os.rename(tmp_file, final_file); after the last file save_data returns.
SaveRename ==
    /\ save_pc[1] = "rename"
    /\ LET tmp_file   == TempFile(Collections[save_pc[2]])
           final_file == FinalFile(tmp_file)
       IN  disk' = IF disk[tmp_file].exists
                   THEN [ disk EXCEPT ![final_file] = disk[tmp_file],
                                      ![tmp_file] = Absent ]
                   ELSE disk
    /\ IF save_pc[2] < Len(Collections)
       THEN /\ save_pc' = << "remove", save_pc[2] + 1 >>
            /\ UNCHANGED data_files
       ELSE /\ save_pc' = << Idle, InSync >>
            /\ data_files' = SaveData(user_data, bot_statistics, background_jobs)
    /\ UNCHANGED << user_data, background_jobs, bot_statistics >>
    /\ StoreFrame

\* The process dies, at any point of save_data or between two calls of it:
\* the collections in memory are gone, the files stay as they are.
Crash ==
    /\ save_pc[1] # "down"
    /\ save_pc' = << "down", IF save_pc[1] = Idle THEN save_pc[2] ELSE OutOfSync >>
    /\ user_data' = NoUsers
    /\ bot_statistics' = NoStatistics
    /\ background_jobs' = << >>
    /\ UNCHANGED << data_files, disk >>
    /\ StoreFrame

\* The process starts again: load_data reads the permanent files.
LoadData ==
    /\ save_pc[1] = "down"
    /\ user_data' = LoadedUsers(disk)
    /\ bot_statistics' = LoadedStats(disk)
    /\ background_jobs' = LoadedJobs(disk)
    /\ save_pc' = << "init", save_pc[2] >>
    /\ UNCHANGED << data_files, disk >>
    /\ StoreFrame

\* initialize_app: the admin account is created and saved when it is missing.
InitializeApp ==
    /\ save_pc[1] = "init"
    /\ IF ADMIN_USERNAME \in DOMAIN user_data
       THEN /\ save_pc' = << Idle, save_pc[2] >>
            /\ UNCHANGED user_data
       ELSE /\ user_data' = [ u \in DOMAIN user_data \cup { ADMIN_USERNAME } |->
                                IF u = ADMIN_USERNAME
                                THEN NewAccount("None")
                                ELSE user_data[u] ]
            /\ save_pc' = << "open", 1 >>
    /\ UNCHANGED << background_jobs, bot_statistics, data_files, disk >>
    /\ StoreFrame

-----------------------------------------------------------------------------
(* The system *)

\* main.py: load_data on an installation with three registered accounts and
\* no job yet, then initialize_app, then start_bot.
Init ==
    /\ user_data = [ u \in Users |-> NewAccount("None") ]
    /\ background_jobs = << >>
    /\ bot_statistics = [ NoStatistics EXCEPT !.total_users = Cardinality(Users),
                                              !.active_users = Cardinality(Users) ]
    /\ data_files = SaveData(user_data, bot_statistics, background_jobs)
    /\ disk = SavedFiles(user_data, bot_statistics, background_jobs)
    /\ save_pc = << Idle, InSync >>
    /\ reg_pc = Idle
    /\ telegram_user_sessions = [ chat \in Chats |-> NoSession ]
    /\ uuid_counter = 0
    /\ clock = 0
    /\ pc = "sleep"
    /\ now = 0
    /\ idx = 1
    /\ updated_jobs = << >>
    /\ wake_at = 0
    /\ response = Response("none", None, "None", FALSE, 0)
    /\ req_no = 0

-----------------------------------------------------------------------------
(* Job templates, app.create_template and the routes that use a template *)

\* The frequencies of a template form: below the minimum, and the default.
TemplateFrequencies == { 3, 60 }

\* The template ids a request can carry: those of the user, and one that
\* names nothing.
TemplateIdInputs(user_id) ==
    { user_data[user_id].templates[k].id : k \in Indices(user_data[user_id].templates) }
      \cup { uuid_counter + 1 }

\* The settings a template form stores, the frequency raised to the minimum.
TemplateSettings(template, quantity, increase_range, form_frequency) ==
    [ template EXCEPT !.quantity     = quantity,
                      !.increase_min = increase_range[1],
                      !.increase_max = increase_range[2],
                      !.frequency    = ClampFrequency(form_frequency) ]

\* new_template of create_template.
NewTemplate(template_id, quantity, increase_range, form_frequency) ==
    TemplateSettings([ id |-> template_id, service_id |-> "s1", quantity |-> 0,
                       increase_min |-> 0, increase_max |-> 0, frequency |-> 0,
                       usage_count |-> 0 ],
                     quantity, increase_range, form_frequency)

\* The positions of the user's templates with the given id.
TemplatesOf(user_id, template_id) ==
    { k \in Indices(user_data[user_id].templates) :
        user_data[user_id].templates[k].id = template_id }

TemplateFrame ==
    UNCHANGED << bot_statistics, clock, SchedulerVars, StoreVars, WebVars,
                 BuilderVars >>

\* POST /templates/create: the template is appended under the lock and saved.
CreateTemplate(user_id, quantity, increase_range, form_frequency) ==
    LET template == NewTemplate(uuid_counter + 1, quantity, increase_range, form_frequency)
        users    == [ user_data EXCEPT ![user_id].templates = Append(@, template) ]
    IN  /\ LockFree
        /\ req_no < MaxRequests
        /\ Len(user_data[user_id].templates) < MaxTemplates
        /\ req_no' = req_no + 1
        /\ uuid_counter' = uuid_counter + 1
        /\ user_data' = users
        /\ data_files' = SaveData(users, bot_statistics, background_jobs)
        /\ response' = Response("create_template", template.id, user_id, TRUE, 0)
        /\ UNCHANGED background_jobs
        /\ TemplateFrame

\* POST /templates/edit/<template_id>: the same settings written over the
\* template's own.
EditTemplate(user_id, template_id, quantity, increase_range, form_frequency) ==
    LET found == TemplatesOf(user_id, template_id)
    IN  /\ LockFree
        /\ req_no < MaxRequests
        /\ req_no' = req_no + 1
        /\ IF found # {}
           THEN LET k     == First(found)
                    users == [ user_data EXCEPT ![user_id].templates[k] =
                                 TemplateSettings(@, quantity, increase_range,
                                                  form_frequency) ]
                IN  /\ user_data' = users
                    /\ data_files' = SaveData(users, bot_statistics, background_jobs)
                    /\ response' = Response("edit_template", template_id, user_id, TRUE, 0)
           ELSE /\ UNCHANGED << user_data, data_files >>
                /\ response' = Response("edit_template", template_id, user_id, FALSE, 0)
        /\ UNCHANGED << background_jobs, uuid_counter >>
        /\ TemplateFrame

\* The jobs built from a template, one for each link.
TemplateJobs(user_id, template, links, first_id, t) ==
    [ k \in 1 .. Len(links) |->
        NewJob(first_id + k - 1, user_id, template.service_id, links[k],
               template.quantity,
               << template.increase_min, template.increase_max >>,
               template.frequency, None, t) ]

\* The template is looked up, its jobs are appended under the lock, its
\* usage_count grows by their number and everything is saved; nothing is
\* changed when the template is not found or the links are refused.
AddTemplateJobs(op, user_id, template_id, links, refused) ==
    LET found == TemplatesOf(user_id, template_id)
    IN  /\ LockFree
        /\ req_no < MaxRequests
        /\ req_no' = req_no + 1
        /\ IF found = {} \/ refused
           THEN /\ UNCHANGED << user_data, background_jobs, data_files, uuid_counter >>
                /\ response' = Response(op, template_id, user_id, FALSE, 0)
           ELSE LET k            == First(found)
                    template     == user_data[user_id].templates[k]
                    created_jobs == TemplateJobs(user_id, template, links,
                                                 uuid_counter + 1, clock)
                    jobs         == background_jobs \o created_jobs
                    users        == [ user_data EXCEPT
                                        ![user_id].templates[k].usage_count =
                                          @ + Len(created_jobs) ]
                IN  /\ Len(jobs) <= MaxJobs
                    /\ background_jobs' = jobs
                    /\ user_data' = users
                    /\ uuid_counter' = uuid_counter + Len(created_jobs)
                    /\ data_files' = SaveData(users, bot_statistics, jobs)
                    /\ response' = Response(op, template_id, user_id, TRUE,
                                            Len(created_jobs))
        /\ TemplateFrame

\* GET /templates/use/<template_id>?link=...: one job from the template.
UseTemplate(user_id, template_id, link) ==
    AddTemplateJobs("use_template", user_id, template_id, << link >>, FALSE)

\* POST /setup_automation_with_template/<template_id>: one link, or up to ten
\* links in bulk mode.
SetupAutomationWithTemplate(user_id, template_id, bulk_mode, form_links) ==
    LET links == IF bulk_mode THEN form_links ELSE << "l1" >>
    IN  AddTemplateJobs("setup_automation_with_template", user_id, template_id,
                        links, bulk_mode /\ (links = << >> \/ Len(links) > 10))

\* bot.create_bulk_jobs_from_template: the links a chat has sent.
CreateBulkJobsFromTemplate(user_id, template_id, links) ==
    AddTemplateJobs("create_bulk_jobs_from_template", user_id, template_id,
                    links, FALSE)

\* POST /setup_automation with any form of the model.
CreateRequest(users) ==
    \E user_id \in users, bulk_mode \in BOOLEAN,
       individual_settings \in BOOLEAN, form_links \in LinkLists,
       bulk_service_ids \in ServiceIdLists,
       service_configs \in ServiceConfigLists, quantity \in Quantities,
       increase_range \in IncreaseRanges, form_frequency \in Frequencies :
         SetupAutomation(user_id, bulk_mode, individual_settings, form_links,
                         bulk_service_ids, service_configs, quantity,
                         increase_range, form_frequency)

\* POST /setup_automation for one link or for a bulk of links, one service.
PlainCreateRequest(users, link_lists, ranges, frequencies) ==
    \E user_id \in users, bulk_mode \in BOOLEAN,
       form_links \in link_lists, quantity \in Quantities,
       increase_range \in ranges, form_frequency \in frequencies :
         SetupAutomation(user_id, bulk_mode, FALSE, form_links, << >>, << >>,
                         quantity, increase_range, form_frequency)

\* The scheduler thread, and the job owners creating and steering single jobs.
Next ==
    \/ PlainCreateRequest(JobOwners, LinkLists, IncreaseRanges, Frequencies)
    \/ \E job_id \in JobIdInputs, user_id \in JobOwners : PauseJob(job_id, user_id)
    \/ \E job_id \in JobIdInputs, user_id \in JobOwners : ResumeJob(job_id, user_id)
    \/ \E job_id \in JobIdInputs, user_id \in JobOwners : StopJobRoute(job_id, user_id)
    \/ TickStart
    \/ TickAcquire
    \/ TickJob
    \/ TickEnd
    \/ Advance

Spec == Init /\ [][Next]_vars

\* The request handlers alone, called by every user.
LifecycleNext ==
    \/ CreateRequest(JobOwners)
    \/ \E job_id \in JobIdInputs, user_id \in Requesters : PauseJob(job_id, user_id)
    \/ \E job_id \in JobIdInputs, user_id \in Requesters : ResumeJob(job_id, user_id)
    \/ \E job_id \in JobIdInputs, user_id \in Requesters : StopJobRoute(job_id, user_id)
    \/ \E g \in GroupIdInputs, user_id \in Requesters : PauseBulkJobs(g, user_id)
    \/ \E g \in GroupIdInputs, user_id \in Requesters : ResumeBulkJobs(g, user_id)
    \/ \E g \in GroupIdInputs, user_id \in Requesters : StopBulkJobs(g, user_id)
    \/ Advance

LifecycleSpec == Init /\ [][LifecycleNext]_vars

\* The scheduler running for a long time against a panel that refuses every
\* order; jobs are created, none is steered.
FailingPanelNext ==
    \/ PlainCreateRequest(JobOwners, LongRunLinkLists, LongRunRanges, LongRunFrequencies)
    \/ TickStart
    \/ TickAcquire
    \/ TickJobFailing
    \/ TickEnd
    \/ AdvanceLong

FailingPanelSpec == Init /\ [][FailingPanelNext]_vars


\* States of an installation that has run for a while: no job yet; one job of
\* alice that has fired once; that job and a second one, paused by alice and
\* then stopped by the admin.
Accounts == [ u \in Users |-> NewAccount("None") ]

Statistics == [ NoStatistics EXCEPT !.total_users = Cardinality(Users),
                                    !.active_users = Cardinality(Users) ]

FirstJob == NewJob(1, "alice", "s1", "l1", 10, << 10, 20 >>, 5, None, 0)

FirstOrder == OrderInfo(FirstJob, "order", 0)

SecondJob == NewJob(3, "alice", "s1", "l2", 10, << 10, 20 >>, 5, 2, 0)

FreshImage == SaveData(Accounts, Statistics, << >>)

FiredImage ==
    SaveData([ Accounts EXCEPT !["alice"].orders = << FirstOrder >> ],
             CountOrder(Statistics, "order"),
             << Fired(FirstJob, FirstOrder, 11, 0) >>)

RetiredImage ==
    [ FiredImage EXCEPT !.background_jobs =
        Append(@, Stopped(Paused(SecondJob, 15), 300, ADMIN_USERNAME)) ]

Images == { FreshImage, FiredImage, RetiredImage }

\* The process is running with one of the images in memory; the files are
\* those of the last save_data, made when memory held a (possibly older) image.
PersistInit ==
    \E memory \in Images, saved \in Images :
        /\ user_data = memory.user_data
        /\ bot_statistics = memory.bot_statistics
        /\ background_jobs = memory.background_jobs
        /\ data_files = saved
        /\ disk = SavedFiles(saved.user_data, saved.bot_statistics,
                             saved.background_jobs)
        /\ save_pc = << Idle, InSync >>
        /\ reg_pc = Idle
        /\ telegram_user_sessions = [ chat \in Chats |-> NoSession ]
        /\ uuid_counter = 3
        /\ clock = 300
        /\ pc = "sleep"
        /\ now = 0
        /\ idx = 1
        /\ updated_jobs = << >>
        /\ wake_at = 0
        /\ response = Response("none", None, "None", FALSE, 0)
        /\ req_no = 0

PersistNext ==
    \/ SaveBegin
    \/ SaveOpen
    \/ SaveDump
    \/ SaveRemove
    \/ SaveRename
    \/ Crash
    \/ LoadData
    \/ InitializeApp

PersistSpec == PersistInit /\ [][PersistNext]_vars

\* The web handlers that write outside the lock, next to the scheduler.
WebNext ==
    \/ PlainCreateRequest(JobOwners, LongRunLinkLists, LongRunRanges, { MinFrequency })
    \/ \E username \in NewUsers, telegram_id \in Chats \cup { "None" } :
          RegisterWrite(username, telegram_id)
    \/ \E telegram_id \in Chats : ConnectWrite("alice", telegram_id)
    \/ WebSave
    \/ RegisterCount
    \/ TickStart
    \/ TickAcquire
    \/ TickJobAccepted
    \/ TickEnd
    \/ Advance

WebSpec == Init /\ [][WebNext]_vars

\* The chats of the Telegram bot and the account page that links a chat.
BuilderNext ==
    \/ \E user_id \in JobOwners, telegram_id \in Chats :
          ConnectWrite(user_id, telegram_id)
    \/ WebSave
    \/ \E chat_id \in Chats : NewJobCommand(chat_id)
    \/ \E chat_id \in Chats : BuilderInput(chat_id)
    \/ \E chat_id \in Chats : BulkTemplateCallback(chat_id)

BuilderSpec == Init /\ [][BuilderNext]_vars

\* No chat is in the middle of a /newjob conversation.
NoConversation ==
    \A chat_id \in Chats : telegram_user_sessions[chat_id].step = "none"

\* The pages that make templates and jobs.
CreationRequest ==
    \/ CreateRequest(JobOwners)
    \/ \E user_id \in JobOwners, form_frequency \in TemplateFrequencies :
          CreateTemplate(user_id, 10, << 10, 20 >>, form_frequency)
    \/ \E user_id \in JobOwners, form_frequency \in TemplateFrequencies :
        \E template_id \in TemplateIdInputs(user_id) :
          EditTemplate(user_id, template_id, 10, << 10, 20 >>, form_frequency)
    \/ \E user_id \in JobOwners : \E template_id \in TemplateIdInputs(user_id) :
          UseTemplate(user_id, template_id, "l1")
    \/ \E user_id \in JobOwners, bulk_mode \in BOOLEAN, form_links \in LinkLists :
        \E template_id \in TemplateIdInputs(user_id) :
          SetupAutomationWithTemplate(user_id, template_id, bulk_mode, form_links)
    \/ \E user_id \in JobOwners, links \in LinkLists :
        \E template_id \in TemplateIdInputs(user_id) :
          CreateBulkJobsFromTemplate(user_id, template_id, links)

\* Every way a job comes into being: the web form in each of its modes, the
\* templates and the routes that use them, and the /newjob builder. The one
\* owner of the model does one thing at a time: she turns to the pages only
\* between two conversations with the bot.
CreationNext ==
    \/ NoConversation /\ CreationRequest
    \/ BuilderNext

CreationSpec == Init /\ [][CreationNext]_vars

-----------------------------------------------------------------------------
(* Properties *)

\* The scheduler polling jobs whose next_run cannot be formatted once they
\* have fired, the panel accepting every order and the owner resuming the
\* jobs now and then.
RetireNext ==
    \/ PlainCreateRequest(JobOwners, LongRunLinkLists, LongRunRanges, HugeFrequencies)
    \/ \E job_id \in JobIdInputs, user_id \in JobOwners : ResumeJob(job_id, user_id)
    \/ TickStart
    \/ TickAcquire
    \/ TickJobAccepted
    \/ TickEnd
    \/ AdvancePoll

RetireSpec == Init /\ [][RetireNext]_vars

\* POST /setup_automation for one link, with any quantity and growth range.
GrowthCreateRequest ==
    \E user_id \in JobOwners, quantity \in GrowthQuantities,
       increase_range \in GrowthRanges, form_frequency \in Frequencies :
         SetupAutomation(user_id, FALSE, FALSE, << "l1" >>, << >>, << >>,
                         quantity, increase_range, form_frequency)

\* The scheduler firing jobs of every quantity and growth range.
GrowthNext ==
    \/ GrowthCreateRequest
    \/ TickStart
    \/ TickAcquire
    \/ TickJobAccepted
    \/ TickEnd
    \/ Advance

GrowthSpec == Init /\ [][GrowthNext]_vars

\* The scheduler firing jobs against a panel that answers with any JSON.
DispatchNext ==
    \/ PlainCreateRequest(JobOwners, LongRunLinkLists, LongRunRanges, Frequencies)
    \/ TickStart
    \/ TickAcquire
    \/ TickJobAnyReply
    \/ TickEnd
    \/ Advance

DispatchSpec == Init /\ [][DispatchNext]_vars

\* The process after a restart: load_data has read the files of an image,
\* the file of the accounts being lost or not, and initialize_app has put
\* the admin back and saved.
OrphanInit ==
    \E image \in { FiredImage, RetiredImage }, lost \in BOOLEAN :
        LET files  == SavedFiles(image.user_data, image.bot_statistics,
                                 image.background_jobs)
            found  == IF lost
                      THEN [ files EXCEPT ![FinalFile(TempFile("user_data"))] = Absent ]
                      ELSE files
            loaded == LoadedUsers(found)
            users  == [ u \in DOMAIN loaded \cup { ADMIN_USERNAME } |->
                          IF u \in DOMAIN loaded THEN loaded[u]
                                                 ELSE NewAccount("None") ]
        IN  /\ user_data = users
            /\ bot_statistics = LoadedStats(found)
            /\ background_jobs = LoadedJobs(found)
            /\ data_files = SaveData(user_data, bot_statistics, background_jobs)
            /\ disk = SavedFiles(user_data, bot_statistics, background_jobs)
            /\ save_pc = << Idle, InSync >>
            /\ reg_pc = Idle
            /\ telegram_user_sessions = [ chat \in Chats |-> NoSession ]
            /\ uuid_counter = 3
            /\ clock = 300
            /\ pc = "sleep"
            /\ now = 0
            /\ idx = 1
            /\ updated_jobs = << >>
            /\ wake_at = 0
            /\ response = Response("none", None, "None", FALSE, 0)
            /\ req_no = 0

\* The instants after the restart: the next poll, and the second run of a
\* job of five minutes.
OrphanTimes == { 315, 600 }

\* The scheduler after the restart, the admin creating jobs of their own and
\* steering the jobs there are.
OrphanNext ==
    \/ PlainCreateRequest({ ADMIN_USERNAME }, LongRunLinkLists, LongRunRanges, LongRunFrequencies)
    \/ \E job_id \in JobIdInputs : PauseJob(job_id, ADMIN_USERNAME)
    \/ \E job_id \in JobIdInputs : ResumeJob(job_id, ADMIN_USERNAME)
    \/ \E job_id \in JobIdInputs : StopJobRoute(job_id, ADMIN_USERNAME)
    \/ TickStart
    \/ TickAcquire
    \/ TickJobAccepted
    \/ TickEnd
    \/ AdvanceTo(OrphanTimes)

OrphanSpec == OrphanInit /\ [][OrphanNext]_vars

\* The links of a bulk form: none, one, two, ten, eleven.
BulkLinkLists ==
    { << >>, << "l1" >>, << "l1", "l2" >>, SubSeq(ElevenLinks, 1, 10), ElevenLinks }

\* POST /setup_automation in bulk or single mode with the common settings.
BulkCreateRequest ==
    \E user_id \in { "alice", "bob" }, bulk_mode \in BOOLEAN,
       form_links \in BulkLinkLists, bulk_service_ids \in ServiceIdLists,
       quantity \in Quantities, form_frequency \in Frequencies :
         SetupAutomationWithin(MaxBulkJobs, user_id, bulk_mode, FALSE,
                               form_links, bulk_service_ids, << >>, quantity,
                               << 10, 20 >>, form_frequency)

\* Users creating jobs in bulk as time passes; the scheduler is asleep.
BulkNext ==
    \/ BulkCreateRequest
    \/ Advance

BulkSpec == Init /\ [][BulkNext]_vars

\* The step is the scheduler's loop iteration over job i.
TickStepOn(i) == pc = "loop" /\ idx = i /\ idx' = i + 1

\* The step is a request served by the handler `op`.
RequestStep(op) == req_no' = req_no + 1 /\ response'.op = op

\* The step is the scheduler's iteration over job i and dispatches an order.
FireStepOn(i) ==
    TickStepOn(i) /\ bot_statistics'.total_orders = bot_statistics.total_orders + 1

\* ceil(n / d) for d > 0.
Ceil(n, d) == IF n >= 0 THEN (n + d - 1) \div d ELSE 0 - ((0 - n) \div d)

\* C1: a scheduler tick dispatches no order for a job with stopped=true and
\* leaves its quantity, next_run and orders as they are, whatever next_run
\* and the time: no step of the scheduler or of the clock alters these fields,
\* and the loop iteration over the job changes no counter and no history.
C1_StoppedJobIsSkipped ==
    [][ \A i \in Indices(background_jobs) :
          (background_jobs[i].stopped /\ req_no' = req_no) =>
            /\ i \in Indices(background_jobs')
            /\ background_jobs'[i].quantity = background_jobs[i].quantity
            /\ background_jobs'[i].next_run = background_jobs[i].next_run
            /\ background_jobs'[i].orders = background_jobs[i].orders
            /\ TickStepOn(i) => /\ bot_statistics' = bot_statistics
                                /\ user_data' = user_data ]_vars

\* The scheduler has just passed over a stopped job that was due.
C1_StoppedDueJobPassedOver ==
    /\ pc = "loop"
    /\ idx > 1
    /\ Len(updated_jobs) = idx - 1
    /\ updated_jobs[idx - 1].stopped
    /\ IsDue(updated_jobs[idx - 1], now)
    /\ updated_jobs[idx - 1].user_id \in DOMAIN user_data

\* C2: a scheduler tick dispatches no order for a job with paused=true and
\* stopped=false and leaves the job unchanged, even when it is due.
C2_PausedJobIsSkipped ==
    [][ \A i \in Indices(background_jobs) :
          ( /\ TickStepOn(i)
            /\ background_jobs[i].paused
            /\ ~background_jobs[i].stopped ) =>
            /\ background_jobs'[i] = background_jobs[i]
            /\ bot_statistics' = bot_statistics ]_vars

\* C3: a resume that succeeds on a paused, non-stopped job leaves it with
\* next_run <= now and not paused; and the scheduler's iteration over a job
\* that is in the state its resume left it in (not fired since, tick started
\* at or after the resume) dispatches one order, whatever the frequency.
C3_ResumeMakesJobDue ==
    [][ \A i \in Indices(background_jobs) :
          LET job == background_jobs[i]
          IN  /\ ( /\ RequestStep("resume_job")
                   /\ response'.ok
                   /\ response'.arg = job.job_id
                   /\ response'.user = job.user_id
                   /\ job.paused
                   /\ ~job.stopped ) =>
                   /\ background_jobs'[i].next_run <= clock'
                   /\ ~background_jobs'[i].paused
              /\ ( /\ TickStepOn(i)
                   /\ ~job.stopped
                   /\ ~job.paused
                   /\ job.resumed_at # NoTime
                   /\ job.next_run = job.resumed_at
                   /\ now >= job.resumed_at ) =>
                   /\ Len(background_jobs'[i].orders) = Len(job.orders) + 1
                   /\ bot_statistics'.total_orders =
                        bot_statistics.total_orders + 1 ]_vars

\* A job fired, then paused and resumed before its next_run came, has been
\* fired again by the tick that followed the resume.
C3_FiredRightAfterResume ==
    /\ pc = "loop"
    /\ \E i \in Indices(updated_jobs) :
         LET job == updated_jobs[i]
         IN  /\ ~job.stopped
             /\ ~job.paused
             /\ Len(job.orders) = 2
             /\ job.paused_at # NoTime
             /\ job.orders[1].timestamp <= job.paused_at
             /\ job.paused_at <= job.resumed_at
             /\ job.resumed_at < job.orders[1].timestamp
                                   + job.frequency * SecondsPerMinute
             /\ job.orders[2].timestamp >= job.resumed_at
             /\ job.orders[2].timestamp < job.orders[1].timestamp
                                            + job.frequency * SecondsPerMinute

\* C4: pause and resume applied to a job with stopped=true return false and
\* leave every field of the job unchanged.
C4_PauseResumeRejectStopped ==
    [][ \A i \in Indices(background_jobs) :
          ( /\ RequestStep("pause_job") \/ RequestStep("resume_job")
            /\ response'.arg = background_jobs[i].job_id
            /\ background_jobs[i].stopped ) =>
            /\ ~response'.ok
            /\ background_jobs' = background_jobs ]_vars

\* C5: stopping a job that is already stopped is reported as not found and
\* leaves stopped, stopped_at and stopped_by as the first stop left them.
C5_StopIsIdempotent ==
    [][ \A i \in Indices(background_jobs) :
          ( /\ RequestStep("stop_job")
            /\ response'.arg = background_jobs[i].job_id
            /\ background_jobs[i].stopped ) =>
            /\ ~response'.ok
            /\ background_jobs'[i].stopped = background_jobs[i].stopped
            /\ background_jobs'[i].stopped_at = background_jobs[i].stopped_at
            /\ background_jobs'[i].stopped_by = background_jobs[i].stopped_by ]_vars

\* C6: pause and resume succeed only when the requester owns the job; for any
\* other requester, the admin included, they return false and no job changes.
C6_OnlyOwnerPausesOrResumes ==
    [][ (RequestStep("pause_job") \/ RequestStep("resume_job")) =>
          LET owned == { i \in Indices(background_jobs) :
                           /\ background_jobs[i].job_id = response'.arg
                           /\ background_jobs[i].user_id = response'.user }
          IN  /\ response'.ok => owned # {}
              /\ owned = {} => /\ ~response'.ok
                               /\ background_jobs' = background_jobs
                               /\ data_files' = data_files ]_vars

\* The admin asked to pause a job of another user and was refused.
C6_AdminRefused ==
    /\ response.op = "pause_job"
    /\ response.user = ADMIN_USERNAME
    /\ ~response.ok
    /\ \E i \in Indices(background_jobs) :
         /\ background_jobs[i].job_id = response.arg
         /\ background_jobs[i].user_id # ADMIN_USERNAME
         /\ ~background_jobs[i].paused
         /\ background_jobs[i].paused_at = NoTime

\* C7: stop sets stopped=true exactly when the requester is the owner of the
\* job or the admin; for any other requester no job changes and the request
\* reports not found.
C7_StopNeedsOwnerOrAdmin ==
    [][ RequestStep("stop_job") =>
          LET allowed == { i \in Indices(background_jobs) :
                             /\ background_jobs[i].job_id = response'.arg
                             /\ \/ background_jobs[i].user_id = response'.user
                                \/ response'.user = ADMIN_USERNAME }
          IN  IF allowed # {}
              THEN /\ response'.ok
                   /\ Len(background_jobs') = Len(background_jobs)
                   /\ \A i \in allowed : background_jobs'[i].stopped
              ELSE /\ ~response'.ok
                   /\ background_jobs' = background_jobs ]_vars

\* The admin has stopped a job of another user.
C7_AdminStopped ==
    /\ response.op = "stop_job"
    /\ response.user = ADMIN_USERNAME
    /\ response.ok
    /\ \E i \in Indices(background_jobs) :
         /\ background_jobs[i].job_id = response.arg
         /\ background_jobs[i].user_id # ADMIN_USERNAME
         /\ background_jobs[i].stopped
         /\ background_jobs[i].stopped_by = ADMIN_USERNAME

\* C8: a group operation called with (G, U) changes exactly the jobs with
\* bulk_group_id = G, owner U and stopped = false, leaves every other job
\* unchanged and returns the number of jobs changed; when there is none it
\* returns 0 and changes nothing.
C8_GroupOperationsFrame ==
    [][ \A op \in { "pause_bulk_jobs", "resume_bulk_jobs", "stop_bulk_jobs" } :
          RequestStep(op) =>
            LET members == { i \in Indices(background_jobs) :
                               /\ background_jobs[i].bulk_group_id = response'.arg
                               /\ background_jobs[i].user_id = response'.user
                               /\ ~background_jobs[i].stopped }
            IN  /\ Len(background_jobs') = Len(background_jobs)
                /\ response'.count = Cardinality(members)
                /\ \A i \in Indices(background_jobs) \ members :
                     background_jobs'[i] = background_jobs[i]
                /\ \A i \in members :
                     /\ op = "pause_bulk_jobs" => background_jobs'[i].paused
                     /\ op = "resume_bulk_jobs" =>
                          /\ ~background_jobs'[i].paused
                          /\ background_jobs'[i].next_run = clock
                     /\ op = "stop_bulk_jobs" => background_jobs'[i].stopped
                /\ members = {} => /\ response'.count = 0
                                   /\ data_files' = data_files ]_vars

\* A group of two jobs, one of them stopped before: pauseGroup paused the
\* other one only and returned 1.
C8_GroupPartlyStopped ==
    /\ response.op = "pause_bulk_jobs"
    /\ response.count = 1
    /\ \E i, k \in Indices(background_jobs) :
         /\ background_jobs[i].bulk_group_id = response.arg
         /\ background_jobs[k].bulk_group_id = response.arg
         /\ background_jobs[i].user_id = response.user
         /\ background_jobs[k].user_id = response.user
         /\ background_jobs[i].stopped
         /\ ~background_jobs[i].paused
         /\ ~background_jobs[k].stopped
         /\ background_jobs[k].paused

\* C9: when one create request produces more than one job, all the jobs it
\* produced carry the same non-empty bulk_group_id, which no job of an
\* earlier request carries.
C9_JobsOfOneRequestShareGroup ==
    [][ ( /\ RequestStep("setup_automation")
          /\ Len(background_jobs') > Len(background_jobs) + 1 ) =>
          \E g \in 1 .. uuid_counter' :
            /\ g # None
            /\ \A i \in (Len(background_jobs) + 1) .. Len(background_jobs') :
                 background_jobs'[i].bulk_group_id = g
            /\ \A i \in Indices(background_jobs) :
                 background_jobs[i].bulk_group_id # g ]_vars

\* C10: a job whose last six fires all got an error reply from the panel has
\* stopped=true with a recorded stopped_reason.
C10_SixFailuresStopTheJob ==
    \A i \in Indices(background_jobs) :
      LET job == background_jobs[i]
          n   == Len(job.orders)
      IN  ( /\ n >= ErrorThreshold + 1
            /\ \A k \in (n - ErrorThreshold) .. n :
                 job.orders[k].response = "error" ) =>
            /\ job.stopped
            /\ job.stopped_reason # "None"

C12_NextQuantityWithinBound ==
    [][ \A i \in Indices(background_jobs) :
          LET job == background_jobs[i]
          IN  (FireStepOn(i) /\ job.quantity >= 1) =>
                /\ background_jobs'[i].quantity >= job.quantity
                /\ background_jobs'[i].quantity <=
                     job.quantity + Ceil(job.quantity * job.increase_range[2], 100) ]_vars

C17_OneSavePerTick ==
    [][ \A i \in Indices(background_jobs) :
          TickStepOn(i) => data_files' = data_files ]_vars



\* C14: save() followed by load() restores the job collection: when the
\* process restarts on the files of a save_data that ran to its end, the jobs
\* load_data puts in memory are, field by field and in the same order, the
\* jobs that were in memory at that save.
C14_SaveThenLoadRestoresJobs ==
    [][ (save_pc = << "down", InSync >> /\ save_pc' # save_pc)
          => background_jobs' = data_files.background_jobs ]_vars

\* A restart has brought back a fired job and a paused, stopped one.
C14_JobsRestored ==
    /\ save_pc = << "init", InSync >>
    /\ Len(background_jobs) = 2
    /\ Len(background_jobs[1].orders) = 1
    /\ background_jobs[2].stopped
    /\ background_jobs[2].paused_at # NoTime
    /\ disk[FinalFile(TempFile("background_jobs"))].text = DumpJobs(background_jobs)

\* C15: save() replaces each permanent file atomically: at every point of a
\* save, a permanent file that existed with complete contents still exists and
\* holds either its previous contents or the complete new contents.
C15_PermanentFilesReplacedAtomically ==
    [][ \A k \in 1 .. Len(Collections) :
          LET c          == Collections[k]
              final_file == FinalFile(TempFile(c))
          IN  Readable(disk[final_file]) =>
                /\ Readable(disk'[final_file])
                /\ \/ disk'[final_file] = disk[final_file]
                   \/ disk'[final_file] =
                        Written(DumpCollection(c, user_data, bot_statistics,
                                               background_jobs)) ]_vars

\* C16: every write to the jobs, the user records and the statistics is made
\* by a thread that holds data_lock: while the scheduler holds the lock for
\* its pass over the jobs, a step of any other thread changes none of them.
C16_WritesHoldTheLock ==
    [][ (pc = "loop" /\ pc' = "loop" /\ idx' = idx)
          => /\ user_data' = user_data
             /\ bot_statistics' = bot_statistics
             /\ background_jobs' = background_jobs ]_vars

\* The builder has handled a message of the chat at its last step.
TerminalStepOf(chat_id) ==
    /\ telegram_user_sessions[chat_id].step = "frequency"
    /\ response'.op \in { "newjob_invalid", "newjob_probe_failed",
                          "newjob_created", "newjob_failed", "newjob_ignored" }
    /\ \A other \in Chats \ { chat_id } :
         telegram_user_sessions'[other] = telegram_user_sessions[other]
    /\ user_data' = user_data
    /\ reg_pc' = reg_pc

\* The value job i takes from a list of the session: the i-th one, and the
\* only one of a single-valued list.
TakesFrom(value, list, i) ==
    /\ i <= Len(list) => value = list[i]
    /\ Len(list) = 1 => value = list[1]

\* C18: on terminal success the builder creates exactly
\* min(10, max(#urls, #links, #services)) jobs, job i taking the i-th value of
\* each list and a single-valued list serving every position; with two links,
\* one URL/key pair and one service id that is two jobs with the same
\* credentials and service, each with its own link.
C18_BuilderPairsLists ==
    [][ \A chat_id \in Chats :
          (TerminalStepOf(chat_id) /\ response'.op = "newjob_created") =>
            LET data == telegram_user_sessions[chat_id].data
                most == Max2(Len(data.api_urls),
                             Max2(Len(data.target_links), Len(data.service_ids)))
                n    == IF most > 10 THEN 10 ELSE most
                old  == Len(background_jobs)
            IN  /\ Len(background_jobs') = old + n
                /\ SubSeq(background_jobs', 1, old) = background_jobs
                /\ \A i \in 1 .. n :
                     LET job == background_jobs'[old + i]
                     IN  /\ TakesFrom(job.api_url, data.api_urls, i)
                         /\ TakesFrom(job.api_key, data.api_keys, i)
                         /\ TakesFrom(job.link, data.target_links, i)
                         /\ TakesFrom(job.service_id, data.service_ids, i)
                         /\ job.user_id = response'.user
                         /\ ~job.stopped ]_vars

\* Two links, one URL/key pair and one service id have given two jobs.
C18_TwoLinksTwoJobs ==
    /\ response.op = "newjob_created"
    /\ response.count = 2
    /\ Len(background_jobs) = 2
    /\ background_jobs[1].link = "l1"
    /\ background_jobs[2].link = "l2"
    /\ background_jobs[1].api_url = background_jobs[2].api_url
    /\ background_jobs[1].api_key = background_jobs[2].api_key
    /\ background_jobs[1].service_id = background_jobs[2].service_id
    /\ \A chat_id \in Chats : telegram_user_sessions[chat_id].step = "none"

\* What the builder has stored before its last step passes validation.
StoredParametersValid(data) ==
    /\ data.quantity.numeric
    /\ data.quantity.value > 0
    /\ 0 <= data.increase[1]
    /\ data.increase[1] <= data.increase[2]
    /\ data.increase[2] <= 100

\* C19: at the builder's frequency step, when validation fails (not
\* quantity > 0, not 0 <= min <= max <= 100, or frequency < 5) or a
\* connectivity probe fails, no job is added and the session is discarded;
\* jobs are added only when validation and every probe succeeded, and then
\* all of them in that one step.
C19_NoPartialCreation ==
    [][ /\ \A chat_id \in Chats :
             TerminalStepOf(chat_id) =>
               LET data == telegram_user_sessions[chat_id].data
               IN  /\ response'.op \in { "newjob_invalid", "newjob_probe_failed" }
                        => /\ background_jobs' = background_jobs
                           /\ telegram_user_sessions'[chat_id].step = "none"
                   /\ (~StoredParametersValid(data) /\ response'.op # "newjob_ignored")
                        => response'.op = "newjob_invalid"
        /\ background_jobs' # background_jobs =>
             \E chat_id \in Chats :
                 LET data == telegram_user_sessions[chat_id].data
                     old  == Len(background_jobs)
                 IN  /\ TerminalStepOf(chat_id)
                     /\ response'.op = "newjob_created"
                     /\ StoredParametersValid(data)
                     /\ Len(background_jobs') = old + response'.count
                     /\ SubSeq(background_jobs', 1, old) = background_jobs
                     /\ \A i \in old + 1 .. Len(background_jobs') :
                          /\ background_jobs'[i].frequency >= 5
                          /\ background_jobs'[i].quantity = data.quantity.value
                          /\ background_jobs'[i].increase_range = data.increase ]_vars

\* A probe has failed at the last step: no job, no session.
C19_ProbeFailedNothingCreated ==
    /\ response.op = "newjob_probe_failed"
    /\ background_jobs = << >>
    /\ \A chat_id \in Chats : telegram_user_sessions[chat_id].step = "none"

\* C20: once the builder has handled a message received at its last step, the
\* chat has no session, whatever the outcome: a session always ends by being
\* destroyed and is never left where the chat's messages cannot end it.
C20_SessionNeverDangling ==
    [][ \A chat_id \in Chats :
          TerminalStepOf(chat_id) =>
            telegram_user_sessions'[chat_id].step = "none" ]_vars

\* C30: in every reachable state every job has a quantity >= 1 and a growth
\* range with 0 <= min <= max <= 100, whichever path created the job and
\* after any number of fires.
C30_JobParametersInRange ==
    \A i \in Indices(background_jobs) :
      LET job == background_jobs[i]
      IN  /\ job.quantity >= 1
          /\ 0 <= job.increase_range[1]
          /\ job.increase_range[1] <= job.increase_range[2]
          /\ job.increase_range[2] <= 100

\* C29: every (api_url, api_key) pair carried by a job the builder creates is
\* a pair the terminal step probed: the jobs added by a terminal step take
\* their pair from zip(api_urls, api_keys), also when the numbers of urls and
\* keys differ.
C29_EveryPairProbed ==
    [][ \A chat_id \in Chats :
          LET data   == telegram_user_sessions[chat_id].data
              probed == { << data.api_urls[p], data.api_keys[p] >> :
                            p \in ProbedPairs(data) }
          IN  TerminalStepOf(chat_id) =>
                \A i \in Indices(background_jobs') \ Indices(background_jobs) :
                  << background_jobs'[i].api_url,
                     background_jobs'[i].api_key >> \in probed ]_vars

\* The order of the builder's steps.
BuilderSteps ==
    << "api_urls", "api_keys", "target_links", "service_ids", "quantity",
       "growth_rate", "frequency" >>

\* The step after `step` in the builder's order; none after the last one.
NextStep(step) ==
    IF \E k \in 1 .. Len(BuilderSteps) - 1 : BuilderSteps[k] = step
    THEN BuilderSteps[(CHOOSE k \in 1 .. Len(BuilderSteps) - 1 : BuilderSteps[k] = step) + 1]
    ELSE "none"

RaisesOn(job, t) ==
    \/ job.next_run > 0 /\ FromTimestampRaises(job.next_run)
    \/ /\ IsDue(job, t)
       /\ job.user_id \in DOMAIN user_data
       /\ FromTimestampRaises(t + (job.frequency * SecondsPerMinute))

\* C23: when the loop body raises on a job, its error_count grows by exactly
\* one (from none to 1), and the job is stopped, with a stopped_reason, exactly
\* when the new count exceeds 5; no step ever lowers or resets an error_count.
C23_ErrorsCountedAndRetired ==
    [][ \A i \in Indices(background_jobs) :
          LET job   == background_jobs[i]
              after == background_jobs'[i]
          IN  /\ after.error_count >= job.error_count
              /\ (TickStepOn(i) /\ ~SkipJob(job) /\ RaisesOn(job, now)) =>
                   /\ after.error_count = job.error_count + 1
                   /\ after.stopped <=> after.error_count > ErrorThreshold
                   /\ after.stopped => after.stopped_reason # "None"
                   /\ ~after.stopped => after.stopped_reason = job.stopped_reason
                   /\ updated_jobs' = Append(updated_jobs, after) ]_vars

\* A job has raised three times and is still scheduled.
C23_ThreeErrorsStillRunning ==
    \E i \in Indices(background_jobs) :
      /\ background_jobs[i].error_count = 3
      /\ ~background_jobs[i].stopped
      /\ background_jobs[i].stopped_reason = "None"

C25_FailureDoesNotStopThePass ==
    [][ /\ \A i \in Indices(background_jobs) :
             LET job   == background_jobs[i]
                 after == background_jobs'[i]
             IN  (TickStepOn(i) /\ ~job.stopped /\ ~job.paused
                    /\ now >= job.next_run /\ ~FromTimestampRaises(job.next_run)
                    /\ job.user_id \in DOMAIN user_data) =>
                   /\ Len(after.orders) = Len(job.orders) + 1
                   /\ bot_statistics'.total_orders = bot_statistics.total_orders + 1
                   /\ updated_jobs' = Append(updated_jobs, after)
        /\ (pc = "loop" /\ pc' = "sleep") =>
             /\ Len(updated_jobs) = Len(background_jobs)
             /\ background_jobs' = updated_jobs
             /\ data_files' = SaveData(user_data, bot_statistics, background_jobs') ]_vars

\* In one pass the first job's dispatch failed and its iteration raised, and
\* the second job was fired all the same.
C25_SecondJobFiredAfterFailure ==
    /\ pc = "loop"
    /\ Len(updated_jobs) = 2
    /\ updated_jobs[1].error_count = 1
    /\ Len(updated_jobs[1].orders) = 1
    /\ updated_jobs[1].orders[1].response = "error"
    /\ Len(updated_jobs[2].orders) = 1
    /\ updated_jobs[2].orders[1].timestamp = updated_jobs[1].orders[1].timestamp
    /\ updated_jobs[2].next_run = now + (updated_jobs[2].frequency * SecondsPerMinute)

\* C26: every call of the dispatcher adds exactly 1 to total_orders and
\* exactly 1 to exactly one of successful_orders and failed_orders, so that,
\* the counters starting at zero, total_orders = successful_orders +
\* failed_orders in every state.
C26_CountersAddUp ==
    /\ [](bot_statistics.total_orders =
            bot_statistics.successful_orders + bot_statistics.failed_orders)
    /\ [][ \A i \in Indices(background_jobs) :
             (TickStepOn(i) /\ Len(background_jobs'[i].orders) =
                                 Len(background_jobs[i].orders) + 1) =>
               /\ bot_statistics'.total_orders = bot_statistics.total_orders + 1
               /\ \/ /\ bot_statistics'.successful_orders =
                          bot_statistics.successful_orders + 1
                     /\ bot_statistics'.failed_orders = bot_statistics.failed_orders
                  \/ /\ bot_statistics'.successful_orders =
                          bot_statistics.successful_orders
                     /\ bot_statistics'.failed_orders =
                          bot_statistics.failed_orders + 1 ]_vars

C22_BulkAddsOneJobPerPair ==
    [][ RequestStep("setup_automation") =>
          LET added    == Indices(background_jobs') \ Indices(background_jobs)
              links    == { background_jobs'[i].link : i \in added }
              services == { background_jobs'[i].service_id : i \in added }
          IN  /\ SubSeq(background_jobs', 1, Len(background_jobs)) = background_jobs
              /\ ~response'.ok => added = {}
              /\ response'.ok =>
                   /\ Cardinality(links) >= 1
                   /\ Cardinality(links) <= 10
                   /\ Cardinality(added) = Cardinality(links) * Cardinality(services)
                   /\ response'.count = Cardinality(added)
                   /\ \A l \in links, s \in services :
                        Cardinality({ i \in added :
                                        /\ background_jobs'[i].link = l
                                        /\ background_jobs'[i].service_id = s }) = 1
                   /\ \A i \in added :
                        /\ background_jobs'[i].user_id = response'.user
                        /\ background_jobs'[i].next_run = clock
                        /\ ~background_jobs'[i].stopped
                        /\ background_jobs'[i].orders = << >> ]_vars

\* Ten links and two service ids were submitted at time 15 and made twenty
\* jobs.
C22_TenLinksTwoServices ==
    /\ Len(background_jobs) = 20
    /\ response.op = "setup_automation"
    /\ response.count = 20
    /\ background_jobs[20].link = "l10"
    /\ background_jobs[20].service_id = "s2"
    /\ background_jobs[20].next_run = 15

\* C21: every job has a frequency of at least 5 minutes, whichever path
\* created it: the web form in single, bulk and individual-settings mode, a
\* template, or the /newjob builder; a smaller value is raised to 5 or the
\* request is refused.
C21_FrequencyAtLeastFive ==
    /\ \A i \in Indices(background_jobs) :
         background_jobs[i].frequency >= MinFrequency
    /\ \A u \in DOMAIN user_data : \A k \in Indices(user_data[u].templates) :
         user_data[u].templates[k].frequency >= MinFrequency

\* A template saved with frequency 3 has made a job, next to a job of the
\* web form.
C21_TemplateJobClamped ==
    /\ Len(background_jobs) = 2
    /\ response.op = "use_template"
    /\ response.ok
    /\ background_jobs[2].frequency = 5
    /\ user_data["alice"].templates[1].frequency = 5
    /\ user_data["alice"].templates[1].usage_count = 1

C38_OrphanJobLeftAlone ==
    [][ \A i \in Indices(background_jobs) :
          LET job == background_jobs[i]
          IN  (~job.stopped /\ job.user_id \notin DOMAIN user_data
                 /\ req_no' = req_no) =>
                /\ background_jobs'[i] = job
                /\ (TickStepOn(i) /\ now >= job.next_run) =>
                     /\ updated_jobs' = Append(updated_jobs, job)
                     /\ bot_statistics' = bot_statistics
                     /\ user_data' = user_data ]_vars

\* The accounts were lost at the restart; the job of alice, due since 300,
\* has been passed over by the pass of 600 and is as it was loaded.
C38_OrphanStillDue ==
    /\ "alice" \notin DOMAIN user_data
    /\ Len(background_jobs) >= 1
    /\ background_jobs[1].user_id = "alice"
    /\ ~background_jobs[1].stopped
    /\ background_jobs[1].next_run = 300
    /\ background_jobs[1].error_count = 0
    /\ Len(background_jobs[1].orders) = 1
    /\ pc = "sleep"
    /\ wake_at = 600 + PollInterval

\* C31: the history of a job is append-only and ordered in time: a step
\* either leaves it as it is or is a fire that appends exactly one entry at
\* its end, carrying the time of the order, the quantity requested and the
\* reply; and in every state the timestamps of consecutive entries are
\* strictly increasing.
C31_HistoryAppendOnly ==
    /\ [](\A i \in Indices(background_jobs) :
            \A k \in 1 .. Len(background_jobs[i].orders) - 1 :
              background_jobs[i].orders[k].timestamp <
                background_jobs[i].orders[k + 1].timestamp)
    /\ [][ \A i \in Indices(background_jobs) :
             LET job   == background_jobs[i]
                 after == background_jobs'[i]
             IN  \/ after.orders = job.orders
                 \/ /\ FireStepOn(i)
                    /\ Len(after.orders) = Len(job.orders) + 1
                    /\ SubSeq(after.orders, 1, Len(job.orders)) = job.orders
                    /\ after.orders[Len(after.orders)].timestamp = clock
                    /\ after.orders[Len(after.orders)].quantity = job.quantity
                    /\ after.orders[Len(after.orders)].response \in PanelReplies ]_vars

\* A job fired at its creation, was resumed by its owner a poll later and
\* fired again: its history holds the two orders in the order of their times.
C31_TwoEntriesInOrder ==
    \E i \in Indices(background_jobs) :
      /\ Len(background_jobs[i].orders) = 2
      /\ background_jobs[i].orders[1].timestamp = 0
      /\ background_jobs[i].orders[2].timestamp = 15
      /\ background_jobs[i].orders[1].quantity = 10
      /\ background_jobs[i].resumed_at # NoTime

\* C32: no operation removes a job: every step keeps each job at its place
\* in the list, new jobs coming after the old ones, and no two jobs share an
\* id; within a pass each iteration puts exactly its own job into the
\* write-back, on every branch, so the write-back holds each job once.
C32_JobsNeverRemoved ==
    /\ [](\A i, j \in Indices(background_jobs) :
            background_jobs[i].job_id = background_jobs[j].job_id => i = j)
    /\ [][ /\ Len(background_jobs') >= Len(background_jobs)
           /\ \A i \in Indices(background_jobs) :
                /\ background_jobs'[i].job_id = background_jobs[i].job_id
                /\ TickStepOn(i) =>
                     /\ Len(updated_jobs) = i - 1
                     /\ updated_jobs' = Append(updated_jobs, background_jobs'[i])
           /\ (pc = "loop" /\ pc' = "sleep") =>
                /\ Len(background_jobs') = Len(background_jobs)
                /\ background_jobs' = updated_jobs ]_vars

\* After the restart that lost the accounts and several passes, the job of
\* alice (owner missing) and a job of the admin whose iterations raised are
\* both still there, in the order of their creation.
C32_BothJobsKept ==
    /\ pc = "sleep"
    /\ Len(background_jobs) = 2
    /\ background_jobs[1].user_id = "alice"
    /\ "alice" \notin DOMAIN user_data
    /\ background_jobs[2].user_id = ADMIN_USERNAME
    /\ background_jobs[2].error_count = 2
    /\ background_jobs[1].job_id < background_jobs[2].job_id

-----------------------------------------------------------------------------
(* Lifecycle operations next to the scheduler *)

\* POST /setup_automation for one link, or for a group of links with
\* individual settings (the jobs that carry the id of their group).
SteerCreateRequest ==
    \E bulk_mode \in BOOLEAN, form_links \in { << "l1" >>, << "l1", "l2" >> } :
        SetupAutomation("alice", bulk_mode, bulk_mode, form_links, << >>,
                        << ServiceConfig("s1", 5) >>, 10, << 10, 20 >>, 5)

SteerNext ==
    \/ SteerCreateRequest
    \/ \E job_id \in JobIdInputs, user_id \in JobOwners : PauseJob(job_id, user_id)
    \/ \E job_id \in JobIdInputs, user_id \in JobOwners : ResumeJob(job_id, user_id)
    \/ \E job_id \in JobIdInputs, user_id \in JobOwners : StopJobRoute(job_id, user_id)
    \/ \E g \in GroupIdInputs, user_id \in JobOwners : PauseBulkJobs(g, user_id)
    \/ \E g \in GroupIdInputs, user_id \in JobOwners : ResumeBulkJobs(g, user_id)
    \/ \E g \in GroupIdInputs, user_id \in JobOwners : StopBulkJobs(g, user_id)
    \/ TickStart
    \/ TickAcquire
    \/ TickJobAccepted
    \/ TickEnd
    \/ Advance

\* The scheduler, and the job owners creating single jobs and groups of jobs
\* and steering them one by one and by group.
SteerSpec == Init /\ [][SteerNext]_vars

\* The operations that pause or stop, one job or a group.
HaltingOps == { "pause_job", "stop_job", "pause_bulk_jobs", "stop_bulk_jobs" }

\* The operations that resume, one job or a group.
ResumingOps == { "resume_job", "resume_bulk_jobs" }

\* C33: pause, stop, pauseGroup and stopGroup never change a job's quantity,
\* next_run, history, growth range or frequency; resume and resumeGroup change
\* only paused, the resumed timestamp and next_run of a job; and a step that
\* changes the quantity or the history of a job is the scheduler's iteration
\* over that job.
C33_LifecycleLeavesSchedule ==
    [][ \A i \in Indices(background_jobs) :
          LET job == background_jobs[i]
              new == background_jobs'[i]
          IN  /\ (\E op \in HaltingOps : RequestStep(op)) =>
                    /\ new.quantity = job.quantity
                    /\ new.next_run = job.next_run
                    /\ new.orders = job.orders
                    /\ new.increase_range = job.increase_range
                    /\ new.frequency = job.frequency
              /\ (\E op \in ResumingOps : RequestStep(op)) =>
                    new = [ job EXCEPT !.paused = new.paused,
                                       !.resumed_at = new.resumed_at,
                                       !.next_run = new.next_run ]
              /\ (new.quantity # job.quantity \/ new.orders # job.orders) =>
                    TickStepOn(i) ]_vars

\* A group of two jobs with one order each has been paused, and then one of
\* them has been resumed and so made due at the instant of the request.
C33_SteeredAfterFiring ==
    /\ response.op = "resume_job"
    /\ response.ok
    /\ Len(background_jobs) = 2
    /\ \A i \in Indices(background_jobs) :
         /\ Len(background_jobs[i].orders) = 1
         /\ background_jobs[i].paused_at = 15
    /\ \E i \in Indices(background_jobs) :
         /\ background_jobs[i].resumed_at = 15
         /\ background_jobs[i].next_run = 15
         /\ ~background_jobs[i].paused

-----------------------------------------------------------------------------
(* save_data on a file system that fails *)

\* What can go wrong for one collection in save_data: nothing, open(tmp, "w")
\* raises, json.dump raises half way, the validating json.load raises,
\* os.remove of the permanent file raises, os.rename raises.
SaveFaults == { "none", "open", "dump", "validate", "remove", "rename" }

NoFaults == [ k \in 1 .. Len(Collections) |-> "none" ]

\* One fault for the file of the jobs, a failing rename for the file of the
\* users, or no fault at all.
FaultLists ==
    { [ k \in 1 .. Len(Collections) |->
          IF Collections[k] = "background_jobs" THEN fault ELSE "none" ] :
        fault \in SaveFaults }
    \cup
    { [ k \in 1 .. Len(Collections) |->
          IF Collections[k] = "user_data" THEN "rename" ELSE "none" ] }

\* Variant of SaveDataRaises for a save_data without its try blocks.
SaveDataRaisesUncaught(faults) == faults # NoFaults

\* save_data: every exception is caught and logged (the `except Exception` of
\* the writing loop, of the renaming loop and of the whole body).
SaveDataRaises(faults) == FALSE

\* The first loop of save_data for one collection: the temporary file.
WriteTemp(file, text, fault) ==
    IF fault = "open" THEN file
    ELSE IF fault = "dump" THEN Truncated
    ELSE Written(text)

\* The files after save_data has run to its end under `faults`: the renaming
\* loop moves each temporary file that exists, removing the permanent file
\* first.
SaveDataOn(files, ud, stats, jobs, faults) ==
    LET Slot(c) == CHOOSE k \in 1 .. Len(Collections) : Collections[k] = c
        Temp(c) == WriteTemp(files[TempFile(c)], DumpCollection(c, ud, stats, jobs),
                             faults[Slot(c)])
        Final(c) == files[FinalFile(TempFile(c))]
        RemoveRaises(c) == faults[Slot(c)] = "remove" /\ Final(c).exists
        RenameRaises(c) == faults[Slot(c)] = "rename"
        Moved(c) == Temp(c).exists /\ ~RemoveRaises(c) /\ ~RenameRaises(c)
    IN  [ p \in Paths |->
            IF p[1] = "data"
            THEN IF ~Temp(p[2]).exists \/ RemoveRaises(p[2]) THEN Final(p[2])
                 ELSE IF RenameRaises(p[2]) THEN Absent
                 ELSE Temp(p[2])
            ELSE IF Moved(p[2]) THEN Absent ELSE Temp(p[2]) ]

\* What a restart would load from the files.
LoadedImage(files) ==
    SaveData(LoadedUsers(files), LoadedStats(files), LoadedJobs(files))

\* pause_job, its save_data meeting `faults`.
PauseJobOn(job_id, user_id, faults) ==
    LET hits == { i \in Indices(background_jobs) :
                    OwnJob(background_jobs[i], job_id, user_id) }
    IN  /\ LockFree
        /\ req_no < MaxRequests
        /\ req_no' = req_no + 1
        /\ IF hits # {}
           THEN LET i == First(hits)
                    jobs == [ background_jobs EXCEPT
                                ![i] = Paused(background_jobs[i], clock) ]
                IN  /\ background_jobs' = jobs
                    /\ disk' = SaveDataOn(disk, user_data, bot_statistics, jobs, faults)
                    /\ data_files' = LoadedImage(disk')
                    \* an exception of save_data would leave the route
                    \* before `return True`
                    /\ response' = Response("pause_job", job_id, user_id,
                                            ~SaveDataRaises(faults), 0)
           ELSE /\ UNCHANGED << background_jobs, data_files, disk >>
                /\ response' = Response("pause_job", job_id, user_id, FALSE, 0)
        /\ UNCHANGED << user_data, bot_statistics, uuid_counter, clock, save_pc >>
        /\ UNCHANGED << SchedulerVars, WebVars, BuilderVars >>

\* stop_job_route: bot.stop_job saves in a try of its own, then the route
\* saves again.
StopJobRouteOn(job_id, user_id, faults, again) ==
    LET found == { i \in Indices(background_jobs) :
                     StopAuthorized(background_jobs[i], job_id, user_id) }
        hits  == { i \in Indices(background_jobs) :
                     background_jobs[i].job_id = job_id }
    IN  /\ LockFree
        /\ req_no < MaxRequests
        /\ req_no' = req_no + 1
        /\ IF found # {}
           THEN LET i == First(hits)
                    jobs == [ background_jobs EXCEPT
                                ![i] = Stopped(background_jobs[i], clock, user_id) ]
                    once == SaveDataOn(disk, user_data, bot_statistics, jobs, faults)
                IN  /\ background_jobs' = jobs
                    /\ disk' = SaveDataOn(once, user_data, bot_statistics, jobs, again)
                    /\ data_files' = LoadedImage(disk')
                    /\ response' = Response("stop_job", job_id, user_id,
                                            ~SaveDataRaises(again), 0)
           ELSE /\ UNCHANGED << background_jobs, data_files, disk >>
                /\ response' = Response("stop_job", job_id, user_id, FALSE, 0)
        /\ UNCHANGED << user_data, bot_statistics, uuid_counter, clock, save_pc >>
        /\ UNCHANGED << SchedulerVars, WebVars, BuilderVars >>

\* The end of a pass, its save_data meeting `faults`; the call is in a try.
TickEndOn(faults) ==
    /\ pc = "loop"
    /\ idx > Len(background_jobs)
    /\ background_jobs' = updated_jobs
    /\ disk' = SaveDataOn(disk, user_data, bot_statistics, updated_jobs, faults)
    /\ data_files' = LoadedImage(disk')
    /\ pc' = "sleep"
    /\ wake_at' = clock + PollInterval
    /\ now' = 0
    /\ idx' = 1
    /\ updated_jobs' = << >>
    /\ UNCHANGED << user_data, bot_statistics, uuid_counter, clock, response,
                    req_no, save_pc >>
    /\ UNCHANGED << WebVars, BuilderVars >>

\* The process is running with a job that has fired at 0 and is not due
\* again before 300, and a stopped one; the files are those of a save_data that went well.
FaultyDiskInit ==
    \E image \in { RetiredImage } :
        /\ user_data = image.user_data
        /\ bot_statistics = image.bot_statistics
        /\ background_jobs = image.background_jobs
        /\ data_files = image
        /\ disk = SavedFiles(user_data, bot_statistics, background_jobs)
        /\ save_pc = << Idle, InSync >>
        /\ reg_pc = Idle
        /\ telegram_user_sessions = [ chat \in Chats |-> NoSession ]
        /\ uuid_counter = 3
        /\ clock = 15
        /\ pc = "sleep"
        /\ now = 0
        /\ idx = 1
        /\ updated_jobs = << >>
        /\ wake_at = 0
        /\ response = Response("none", None, "None", FALSE, 0)
        /\ req_no = 0

\* The passes of the scheduler over jobs that are not due, and the owner and
\* the admin pausing and stopping jobs, every save_data on a failing disk.
FaultyDiskNext ==
    \/ \E job_id \in JobIdInputs, faults \in FaultLists : PauseJobOn(job_id, "alice", faults)
    \/ \E job_id \in JobIdInputs, faults \in FaultLists, twice \in BOOLEAN : StopJobRouteOn(job_id, ADMIN_USERNAME, faults, IF twice THEN faults ELSE NoFaults)
    \/ TickStart
    \/ TickAcquire
    \/ TickJobAccepted
    \/ \E faults \in FaultLists : TickEndOn(faults)
    \/ AdvanceTo({ 30 })

FaultyDiskSpec == FaultyDiskInit /\ [][FaultyDiskNext]_vars

\* The files are not those of a save_data of the collections in memory.
SaveFailed == disk # SavedFiles(user_data, bot_statistics, background_jobs)

\* C34: a save_data that fails never undoes or aborts the change made in
\* memory before it.  Whatever the files are after the step: a pause or stop
\* request that finds its job reports success and leaves in memory exactly
\* the job list with that job paused or stopped, users and statistics as they
\* were; the end of a pass leaves in memory exactly the write-back and takes
\* the scheduler to its sleep of one poll interval.
C34_SaveFailureKeepsMemory ==
    [][ /\ RequestStep("pause_job") =>
             LET hits == { i \in Indices(background_jobs) :
                             OwnJob(background_jobs[i], response'.arg, response'.user) }
             IN  /\ response'.ok = (hits # {})
                 /\ hits # {} =>
                      background_jobs' = [ background_jobs EXCEPT ![First(hits)] =
                                             Paused(background_jobs[First(hits)], clock) ]
        /\ RequestStep("stop_job") =>
             LET hits == { i \in Indices(background_jobs) :
                             background_jobs[i].job_id = response'.arg }
             IN  /\ response'.ok = (hits # {})
                 /\ hits # {} =>
                      background_jobs' = [ background_jobs EXCEPT ![First(hits)] =
                                             Stopped(background_jobs[First(hits)], clock,
                                                     response'.user) ]
        /\ (pc = "loop" /\ pc' # "loop") =>
             /\ background_jobs' = updated_jobs
             /\ pc' = "sleep"
             /\ wake_at' = clock + PollInterval
        /\ user_data' = user_data
        /\ bot_statistics' = bot_statistics ]_vars

\* A pause has reported success and the job is paused in memory while the
\* permanent file of the jobs is gone (its rename failed), and a pass of the
\* scheduler has since run to its sleep.
C34_PausedWhileFileLost ==
    /\ response.op = "pause_job"
    /\ response.ok
    /\ \E i \in Indices(background_jobs) : background_jobs[i].paused_at = 15
    /\ ~disk[FinalFile(TempFile("background_jobs"))].exists
    /\ SaveFailed
    /\ pc = "sleep"
    /\ wake_at = 30 + PollInterval

\* C37: no update is lost between a pass of the scheduler and a request.  A
\* request (create, pause, resume, stop) is served only while the scheduler
\* is outside its pass and leaves the locals of the scheduler alone; an
\* iteration of the pass changes no job but its own and keeps the pause,
\* resume and stop marks of that job; and the write-back at the end of the
\* pass replaces the collection by itself, so it holds every job and every
\* change that was there when the pass ended.
C37_NoUpdateLost ==
    [][ /\ req_no' # req_no =>
             /\ pc # "loop"
             /\ << pc, now, idx, updated_jobs >>' = << pc, now, idx, updated_jobs >>
        /\ (pc = "loop" /\ pc' = "loop") =>
             /\ Len(background_jobs') = Len(background_jobs)
             /\ \A i \in Indices(background_jobs) :
                  LET job == background_jobs[i]
                      new == background_jobs'[i]
                  IN  /\ ~TickStepOn(i) => new = job
                      /\ new.paused = job.paused
                      /\ new.paused_at = job.paused_at
                      /\ new.resumed_at = job.resumed_at
                      /\ new.stopped_at = job.stopped_at
                      /\ job.stopped => new.stopped
        /\ (pc = "loop" /\ pc' = "sleep") =>
             background_jobs' = background_jobs ]_vars

\* A pass that took its time at 0 is at its end: it has fired the first job,
\* which a request paused at 15, after the pass had started, and it holds the
\* second job, which a request created at 15, in its write-back.
C37_RequestsDuringThePass ==
    /\ pc = "loop"
    /\ now = 0
    /\ idx > Len(background_jobs)
    /\ Len(background_jobs) = 2
    /\ updated_jobs = background_jobs
    /\ background_jobs[1].paused
    /\ background_jobs[1].paused_at = 15
    /\ Len(background_jobs[1].orders) = 1
    /\ background_jobs[2].next_run = 15
    /\ background_jobs[2].orders = << >>

-----------------------------------------------------------------------------
(* The first run of a job *)

\* The scheduler and the job owners creating, pausing and stopping jobs at
\* the start and one poll interval later.
FirstRunNext ==
    \/ PlainCreateRequest(JobOwners, LinkLists, IncreaseRanges, { MinFrequency })
    \/ \E job_id \in JobIdInputs, user_id \in JobOwners : PauseJob(job_id, user_id)
    \/ \E job_id \in JobIdInputs, user_id \in JobOwners : StopJobRoute(job_id, user_id)
    \/ TickStart
    \/ TickAcquire
    \/ TickJob
    \/ TickEnd
    \/ AdvanceTo({ PollInterval })

\* The scheduler thread runs on: once it has read the time it gets the lock,
\* which the requests hold for one handler each, goes through the jobs and
\* ends its pass.
FirstRunSpec ==
    /\ Init
    /\ [][FirstRunNext]_vars
    /\ WF_vars(TickAcquire)
    /\ WF_vars(TickJob)
    /\ WF_vars(TickEnd)

\* Job i is there, has no order yet, and a pass has read a time that is not
\* before its next_run.
AwaitsFirstRun(i) ==
    /\ pc = "snap"
    /\ i \in Indices(background_jobs)
    /\ background_jobs[i].user_id \in DOMAIN user_data
    /\ background_jobs[i].orders = << >>
    /\ now >= background_jobs[i].next_run

HasRun(i) ==
    /\ i \in Indices(background_jobs)
    /\ background_jobs[i].orders # << >>

IsStopped(i) ==
    /\ i \in Indices(background_jobs)
    /\ background_jobs[i].stopped

\* A creation makes jobs that are not stopped, have no order and are due at
\* the instant of the request; the first order of a job carries the quantity
\* the job was created with and is dispatched by a pass that read its time
\* not before the creation.
FirstRunSteps ==
    [][ /\ RequestStep("setup_automation") =>
             \A i \in Indices(background_jobs') \ Indices(background_jobs) :
                /\ ~background_jobs'[i].stopped
                /\ background_jobs'[i].orders = << >>
                /\ background_jobs'[i].next_run = clock
                /\ background_jobs'[i].user_id \in DOMAIN user_data
        /\ \A i \in Indices(background_jobs) :
             (FireStepOn(i) /\ background_jobs[i].orders = << >>) =>
                /\ Len(background_jobs'[i].orders) = 1
                /\ background_jobs'[i].orders[1].quantity = background_jobs[i].quantity
                /\ background_jobs[i].quantity \in Quantities
                /\ now >= background_jobs[i].next_run ]_vars

\* C35 as stated: every created job is eventually fired; created not
\* stopped and due at once, it gets its first order, of the initial quantity,
\* from the first pass that reads its time after the creation.
C35_EveryCreatedJobFired ==
    /\ FirstRunSteps
    /\ \A i \in 1 .. MaxJobs : AwaitsFirstRun(i) ~> HasRun(i)

\* C35, amended: a created job is not stopped, has no order and is due at
\* once; the first pass that reads its time after the creation dispatches its
\* first order, of the initial quantity, unless the job has been stopped
\* before that pass reaches it.
C35_CreatedJobFiredUnlessStopped ==
    /\ FirstRunSteps
    /\ \A i \in 1 .. MaxJobs :
         AwaitsFirstRun(i) ~> (HasRun(i) \/ IsStopped(i))

\* A job created at 15, after a pass that had nothing to do, got its first
\* order of 10 from the pass that started at 15, paused though it was.
C35_FiredByTheNextPass ==
    /\ pc = "sleep"
    /\ wake_at = 15 + PollInterval
    /\ Len(background_jobs) = 1
    /\ background_jobs[1].paused
    /\ ~background_jobs[1].stopped
    /\ Len(background_jobs[1].orders) = 1
    /\ background_jobs[1].orders[1].timestamp = 15
    /\ background_jobs[1].orders[1].quantity = 10
    /\ bot_statistics.total_orders = 1

-----------------------------------------------------------------------------
(* The data_lock *)

\* send_telegram_notification posts to Telegram when the account has a
\* telegram_id; the requests.post it makes is given no timeout.
NotifiesOwner(job, ud) ==
    /\ job.user_id \in DOMAIN ud
    /\ ud[job.user_id].telegram_id # "None"

\* The iteration the pass is at fires its job and then, the lock still held,
\* waits for Telegram to answer the notification.
AwaitsTelegram ==
    /\ pc = "loop"
    /\ idx <= Len(background_jobs)
    /\ ~SkipJob(background_jobs[idx])
    /\ IsDue(background_jobs[idx], now)
    /\ HasUserData(background_jobs[idx], user_data)
    /\ NotifiesOwner(background_jobs[idx], user_data)

\* The scheduler, the job owner creating and stopping jobs, and the account
\* page linking a chat, whose save_data waits for the lock.
LockNext ==
    \/ PlainCreateRequest(JobOwners, LinkLists, IncreaseRanges, { MinFrequency })
    \/ \E job_id \in JobIdInputs, user_id \in JobOwners : StopJobRoute(job_id, user_id)
    \/ \E telegram_id \in Chats : ConnectWrite("alice", telegram_id)
    \/ WebSave
    \/ TickStart
    \/ TickAcquire
    \/ TickJob
    \/ TickEnd
    \/ AdvanceTo({ PollInterval })

\* Every thread runs on: the scheduler gets the lock, makes the iterations
\* whose calls all return (the call of the panel has a timeout, the call of
\* Telegram has none) and ends its pass; a handler that waits for the lock
\* takes it when it is free.
LockSpec ==
    /\ Init
    /\ [][LockNext]_vars
    /\ WF_vars(TickAcquire)
    /\ WF_vars(~AwaitsTelegram /\ TickJob)
    /\ WF_vars(TickEnd)
    /\ WF_vars(WebSave)

\* C36: the threads cannot deadlock on the data_lock: every acquisition is
\* eventually released, so a pass of the scheduler that holds the lock ends
\* and a handler that waits for the lock eventually gets it and returns.
C36_LockAlwaysReleased ==
    /\ (pc = "loop") ~> (pc = "sleep")
    /\ (reg_pc # Idle) ~> (reg_pc = Idle)

-----------------------------------------------------------------------------
(* Commands sent in the middle of a /newjob conversation *)

\* Texts that handle_telegram_update answers as commands before it reaches
\* the builder.
CommandTexts == { "/start", "/jobs" }

\* A command of CommandTexts sent while the chat has a session: its branch
\* of the if/elif chain answers it and does not return, so the text goes on
\* to the builder.  It is the one non-blank line of a list step; it is stored
\* as it is at the quantity and frequency steps, where int() will refuse it;
\* float() refuses it at the growth_rate step.
BuilderCommand(chat_id) ==
    /\ telegram_user_sessions[chat_id].step # "none"
    /\ \E text \in CommandTexts :
         LET session == telegram_user_sessions[chat_id]
             data    == session.data
             user_id == FindUserByTelegramId(user_data, chat_id)
         IN  IF user_id = "None"
             THEN /\ response' = Response("newjob_ignored", None, "None", FALSE, 0)
                  /\ UNCHANGED << telegram_user_sessions, background_jobs,
                                  data_files, uuid_counter >>
             ELSE CASE session.step = "api_urls" ->
                         BuilderAdvance(chat_id, user_id, "api_keys",
                                        [ data EXCEPT !.api_urls = << text >> ])
                    [] session.step = "api_keys" ->
                         BuilderAdvance(chat_id, user_id, "target_links",
                                        [ data EXCEPT !.api_keys = << text >> ])
                    [] session.step = "target_links" ->
                         BuilderAdvance(chat_id, user_id, "service_ids",
                                        [ data EXCEPT !.target_links = << text >> ])
                    [] session.step = "service_ids" ->
                         BuilderAdvance(chat_id, user_id, "quantity",
                                        [ data EXCEPT !.service_ids = << text >> ])
                    [] session.step = "quantity" ->
                         BuilderAdvance(chat_id, user_id, "growth_rate",
                                        [ data EXCEPT !.quantity = NotANumber ])
                    [] session.step = "growth_rate" ->
                         /\ response' = Response("newjob_reprompt", None,
                                                 user_id, FALSE, 0)
                         /\ UNCHANGED << telegram_user_sessions, background_jobs,
                                         data_files, uuid_counter >>
                    [] session.step = "frequency" ->
                         BuilderFinish(chat_id, user_id, data, NotANumber)
    /\ UNCHANGED req_no
    /\ BuilderFrame

\* The sessions a chat can be in the middle of: at the first step, or at the
\* links after a URL and a key.
OpenSessions ==
    { NewJobSession("api_urls", NoSessionData),
      NewJobSession("target_links",
                    [ NoSessionData EXCEPT !.api_urls = << "u1" >>,
                                           !.api_keys = << "k1" >> ]) }

\* alice has linked the chat c1 and is in the middle of a conversation.
ConversationInit ==
    /\ user_data = [ u \in Users |-> NewAccount(IF u = "alice" THEN "c1" ELSE "None") ]
    /\ background_jobs = << >>
    /\ bot_statistics = [ NoStatistics EXCEPT !.total_users = Cardinality(Users),
                                              !.active_users = Cardinality(Users) ]
    /\ data_files = SaveData(user_data, bot_statistics, background_jobs)
    /\ disk = SavedFiles(user_data, bot_statistics, background_jobs)
    /\ save_pc = << Idle, InSync >>
    /\ reg_pc = Idle
    /\ \E session \in OpenSessions :
         telegram_user_sessions =
           [ chat \in Chats |-> IF chat = "c1" THEN session ELSE NoSession ]
    /\ uuid_counter = 0
    /\ clock = 0
    /\ pc = "sleep"
    /\ now = 0
    /\ idx = 1
    /\ updated_jobs = << >>
    /\ wake_at = 0
    /\ response = Response("none", None, "None", FALSE, 0)
    /\ req_no = 0

\* The texts of the chats: /newjob in the middle of the conversation of c1,
\* replies and commands; and the account page linking alice to one chat or
\* the other.
ConversationNext ==
    \/ \E telegram_id \in Chats : ConnectWrite("alice", telegram_id)
    \/ WebSave
    \/ telegram_user_sessions["c1"].step # "none" /\ NewJobCommand("c1")
    \/ \E chat_id \in Chats : BuilderInput(chat_id)
    \/ \E chat_id \in Chats : BuilderCommand(chat_id)

ConversationSpec == ConversationInit /\ [][ConversationNext]_vars

\* What the builder answers to a text it is handed.
BuilderReplies ==
    { "newjob_prompt", "newjob_reprompt", "newjob_ignored", "newjob_invalid",
      "newjob_probe_failed", "newjob_created", "newjob_failed" }

\* The handler has dealt with a text, not /newjob, of a chat that has a
\* session.
TextStepOf(chat_id) ==
    /\ telegram_user_sessions[chat_id].step # "none"
    /\ response'.op \in BuilderReplies
    /\ user_data' = user_data
    /\ reg_pc' = reg_pc

\* The handler has dealt with /newjob.
NewJobStep ==
    /\ response'.op \in { "newjob_started", "newjob_not_connected" }
    /\ user_data' = user_data
    /\ reg_pc' = reg_pc

\* The key of the session data a step fills.
FieldOf(step) ==
    CASE step = "api_urls" -> "api_urls"
      [] step = "api_keys" -> "api_keys"
      [] step = "target_links" -> "target_links"
      [] step = "service_ids" -> "service_ids"
      [] step = "quantity" -> "quantity"
      [] OTHER -> "increase"

=============================================================================
